---- MODULE Spec2Model ----
(***************************************************************************)
(* ProjectSync (src/sync_tool.py): the SyncApp operations sync-to-remote,  *)
(* sync-from-remote, git push, git pull and full sync, the conflict        *)
(* detector and the ConflictDialog / CommitDialog flows, the connection    *)
(* test, the SSH helper and the project handlers, as one state machine.    *)
(* The GUI is single-threaded: a handler runs from the idle main           *)
(* loop and holds the control (pc) until it returns; it gives the control  *)
(* away only to a modal dialog or to an external command it waits for.     *)
(* Every external command's outcome is chosen by the environment at the    *)
(* moment the command is run.                                              *)
(***************************************************************************)
EXTENDS Naturals, Sequences, FiniteSets, TLC

(* ------------------------------ bounds -------------------------------- *)

\* Number of distinct gitignored file paths that may exist on either side.
NumFiles == 3

\* Largest modification time, in ticks of 1/TicksPerSecond second.
MaxTick == 2

\* Largest number of projects the list is grown to by "Add Project".
MaxProjects == 2

(* ------------------------- values and helpers ------------------------- *)

\* Sub-second resolution of os.path.getmtime's float result.
TicksPerSecond == 2

\* Python's None, and a value that is not None.
None == << >>

Some(x) == <<x>>

FileNames == <<"a.env", "b.log", "c.db", "d.bin", "e.tmp", "f.key">>

Files == {FileNames[i] : i \in 1..NumFiles}

\* The lines `git ls-files --others --ignored --exclude-standard` prints
\* for the set S of gitignored files (git prints them sorted, one per line).
Listing(S) == SelectSeq(SubSeq(FileNames, 1, NumFiles), LAMBDA f : f \in S)

Range(s) == {s[i] : i \in 1..Len(s)}

\* The configured project (Config.projects holds dict records).
ProjectA ==
    [name |-> "proj", local_path |-> "/home/u/proj", remote_host |-> "mac2",
     remote_path |-> "/Users/u/proj", git_branch |-> "main"]

\* White space, as str.strip takes it (str.isspace): the ASCII characters
\* \t \n \v \f \r, the separators FS GS RS US, the space, NEL and the
\* no-break space.  The white space beyond U+00FF (U+1680, U+2000..U+200A,
\* U+2028, U+2029, U+202F, U+205F, U+3000) cannot be written in a string
\* of the module and is not in the set.
Whitespace ==
    {" ", "\t", "\n", "\r", "\f", "", "", "", "", "", "", " "}

\* str.lstrip and str.rstrip of a text: a string, or the sequence of the
\* pieces typed into a field.
RECURSIVE lstrip(_)
lstrip(s) == IF Len(s) > 0 /\ Head(s) \in Whitespace THEN lstrip(Tail(s)) ELSE s

RECURSIVE rstrip(_)
rstrip(s) ==
    IF Len(s) > 0 /\ Head(SubSeq(s, Len(s), Len(s))) \in Whitespace
    THEN rstrip(SubSeq(s, 1, Len(s) - 1)) ELSE s

\* str.strip
strip(s) == rstrip(lstrip(s))

\* str.lstrip of a text held as its lines: the leading lines of white space
\* go, and the white space before the first other character.
RECURSIVE lstrip_lines(_)
lstrip_lines(ls) ==
    IF ls = << >> THEN << >>
    ELSE LET first == lstrip(Head(ls))
         IN  IF Len(first) = 0 THEN lstrip_lines(Tail(ls))
             ELSE IF first = Head(ls) THEN ls
             ELSE <<first>> \o Tail(ls)

RECURSIVE rstrip_lines(_)
rstrip_lines(ls) ==
    IF ls = << >> THEN << >>
    ELSE LET last == rstrip(ls[Len(ls)])
         IN  IF Len(last) = 0 THEN rstrip_lines(SubSeq(ls, 1, Len(ls) - 1))
             ELSE IF last = ls[Len(ls)] THEN ls
             ELSE SubSeq(ls, 1, Len(ls) - 1) \o <<last>>

\* output.strip() of the text a command printed.
strip_output(ls) == rstrip_lines(lstrip_lines(ls))

\* What subprocess.run can do with a command: exit with a return code and
\* the lines it printed (stdout, then stderr), exceed the timeout, or raise
\* another exception e, of which str(e) is kept.
Exited(rc, out) == [kind |-> "exit", returncode |-> rc, out |-> out]

TimedOut == [kind |-> "timeout", returncode |-> 1, out |-> << >>]

Excepted(msg) == [kind |-> "exception", returncode |-> 1, out |-> <<msg>>]

\* subprocess.run raising for a working directory that is not there.
NoSuchDirectory == Excepted("[Errno 2] No such file or directory: '/home/u/proj'")

\* Mutant of run_command: a timeout is reported as a success.
run_command_timeout_success(e) ==
    IF e.kind = "timeout"
    THEN [success |-> TRUE, output |-> <<"Command timed out">>]
    ELSE IF e.kind = "exception"
    THEN [success |-> FALSE, output |-> e.out]
    ELSE [success |-> (e.returncode = 0), output |-> strip_output(e.out)]

\* _run_command: (success, output) of one external command.
run_command(e) ==
    IF e.kind = "timeout"
    THEN [success |-> FALSE, output |-> <<"Command timed out">>]
    ELSE IF e.kind = "exception"
    THEN [success |-> FALSE, output |-> e.out]
    ELSE [success |-> (e.returncode = 0), output |-> strip_output(e.out)]

\* Outcomes of the two untracked-file listing commands.
ListingExecs ==
    {Exited(0, Listing(S)) : S \in SUBSET Files}
    \cup {Exited(1, <<"fatal: not a git repository">>),
          Exited(1, Listing(Files)), TimedOut}

\* _get_gitignored_files: the parsed list, empty when the command failed.
get_gitignored_files(e) ==
    LET r == run_command(e)
    IN  IF r.success /\ r.output # << >> THEN strip_output(r.output) ELSE << >>

DigitStrings == <<"0", "1", "2", "3", "4", "5", "6", "7", "8", "9">>

\* str.isdigit on the stripped output, and int() of it.
isdigit(out) == Len(out) = 1 /\ \E i \in 1..Len(DigitStrings) : DigitStrings[i] = out[1]

int(out) == (CHOOSE i \in 1..Len(DigitStrings) : DigitStrings[i] = out[1]) - 1

\* datetime.fromtimestamp(t).strftime('%Y-%m-%d %H:%M:%S') of whole second s.
strftime(s) == Some(s)

MaxSecond == MaxTick \div TicksPerSecond

\* The local filesystem's answer for one path: absent, or present with a
\* (sub-second) modification time.
LocalStats ==
    {[exists |-> FALSE, mtime |-> 0]}
    \cup {[exists |-> TRUE, mtime |-> t] : t \in 0..MaxTick}

\* Outcomes of the remote stat command (BSD form || GNU form, stderr dropped):
\* the epoch seconds alone, other text before them, nothing, or a timeout.
StatExecs ==
    {Exited(0, <<DigitStrings[s + 1]>>) : s \in 0..MaxSecond}
    \cup {Exited(0, <<"File: \"a\"", "0">>), Exited(1, << >>), TimedOut}

\* Mutant of get_file_mtime_local: a missing file is given the epoch.
get_file_mtime_local_epoch(st) ==
    IF st.exists THEN strftime(st.mtime \div TicksPerSecond) ELSE strftime(0)

\* _get_file_mtime(local=True): formatted time, or None.
get_file_mtime_local(st) ==
    IF st.exists THEN strftime(st.mtime \div TicksPerSecond) ELSE None

\* _get_file_mtime(local=False): formatted time, or None.
get_file_mtime_remote(e) ==
    LET r == run_command(e)
    IN  IF r.success /\ isdigit(r.output) THEN strftime(int(r.output)) ELSE None

\* Mutant of is_conflict: the two times are compared without testing that
\* both resolved.
is_conflict_unguarded(local_time, remote_time) == local_time # remote_time

\* The test of _detect_conflicts that makes a file a conflict.
is_conflict(local_time, remote_time) ==
    local_time # None /\ remote_time # None /\ local_time # remote_time

Choices == {"local", "remote", "skip"}

\* Mutant of KeepChoice: both directions keep the files decided 'local'.
KeepChoice_local(dir) == "local"

\* The choice that keeps a file in the transfer of a direction.
KeepChoice(dir) == IF dir = "to_remote" THEN "local" ELSE "remote"

(* --------------------------- project store ---------------------------- *)

\* A second project, as the store may hold it.
ProjectB ==
    [name |-> "web", local_path |-> "/home/u/proj", remote_host |-> "mac2",
     remote_path |-> "/Users/u/proj", git_branch |-> "dev"]

\* Python values Config.projects can be bound to: a list, or (read from a
\* store that holds something else under 'projects') a number.
PyList(items) == [type |-> "list", items |-> items]

PyInt == [type |-> "int", items |-> << >>]

\* JSON documents: an object with or without the key 'projects', an array.
JObject(has, value) == [type |-> "object", has_projects |-> has, projects |-> value]

JArray == [type |-> "array", has_projects |-> FALSE, projects |-> PyList(<< >>)]

NoData == [type |-> "none", has_projects |-> FALSE, projects |-> PyList(<< >>)]

\* CONFIG_FILE on disk: missing, not openable, bytes that are no text, text
\* that is no JSON, or a JSON document.
File(kind, data) == [kind |-> kind, data |-> data]

StoredLists == {<< >>, <<ProjectA>>, <<ProjectA, ProjectB>>}

StoreContents ==
    {File("missing", NoData), File("unreadable", NoData), File("undecodable", NoData),
     File("not_json", NoData), File("json", JArray),
     File("json", JObject(FALSE, PyList(<< >>))), File("json", JObject(TRUE, PyInt))}
    \cup {File("json", JObject(TRUE, PyList(ps))) : ps \in StoredLists}

\* The stores taken as not writable: a path that cannot be opened at all (a
\* directory), and a read-only file that holds one project.
ReadOnlyStores ==
    {File("unreadable", NoData), File("json", JObject(TRUE, PyList(<<ProjectA>>)))}

\* An exception that left a function uncaught.
Raised(where, exc) == Some([where |-> where, exc |-> exc])

\* Config.load: the value self.projects is bound to, and the exception that
\* leaves load, if any (self.projects is [] from __init__ then).
load(f) ==
    IF f.kind = "missing" THEN [projects |-> PyList(<< >>), raised |-> None]
    ELSE IF f.kind \in {"unreadable", "not_json"}
    THEN [projects |-> PyList(<< >>), raised |-> None]
    ELSE IF f.kind = "undecodable"
    THEN [projects |-> PyList(<< >>), raised |-> Raised("Config.load", "UnicodeDecodeError")]
    ELSE IF f.data.type # "object"
    THEN [projects |-> PyList(<< >>), raised |-> Raised("Config.load", "AttributeError")]
    ELSE IF f.data.has_projects
    THEN [projects |-> f.data.projects, raised |-> None]
    ELSE [projects |-> PyList(<< >>), raised |-> None]

\* Config.save over the file f: open(CONFIG_FILE, 'w') and json.dump, or,
\* when the path cannot be opened for writing, the OSError that leaves save
\* (save catches nothing) with the file as it was.
save(f, ps, writable) ==
    IF writable
    THEN [file |-> File("json", JObject(TRUE, ps)), raised |-> None]
    ELSE [file |-> f, raised |-> Raised("Config.save", "OSError")]

\* Config.get_project_names
get_project_names(ps) == [i \in 1..Len(ps) |-> ps[i].name]

\* The project _on_project_selected makes current for the name in the
\* combobox: the first of that name, or None.
on_project_selected(ps, name) ==
    LET idx == {i \in 1..Len(ps) : ps[i].name = name}
    IN  IF idx = {} THEN None
        ELSE Some(ps[CHOOSE i \in idx : \A j \in idx : i <= j])

\* What the user may have in the entry fields of the ProjectDialog, as
\* sequences of typed pieces (" " is white space).
NameInputs == {<< >>, <<" ", " ">>, <<"proj">>, <<"\r", "web", " ">>}

LocalInputs == {<< >>, <<"/home/u/proj">>, <<"/nowhere">>}

HostInputs == {<< >>, <<"mac2">>}

RemoteInputs == {<< >>, <<"/Users/u/proj">>}

BranchInputs == {<< >>, <<" ">>}

\* The directories that exist on the local disk (os.path.isdir).
Directories == {"/home/u/proj"}

isdir(path) == path \in Directories

\* The text of an entry field: its pieces joined.
RECURSIVE Join(_)
Join(s) == IF s = << >> THEN "" ELSE Head(s) \o Join(Tail(s))

\* tk.StringVar(value=...) of the dialog's fields: the project's values, or
\* the defaults of a new project.
Prefill(project) ==
    IF project = None
    THEN [name |-> << >>, local |-> << >>, host |-> << >>, remote |-> << >>,
          branch |-> <<"main">>]
    ELSE [name |-> <<project[1].name>>, local |-> <<project[1].local_path>>,
          host |-> <<project[1].remote_host>>, remote |-> <<project[1].remote_path>>,
          branch |-> <<project[1].git_branch>>]

(* ------------------------------- state -------------------------------- *)

VARIABLES
    current_project,  \* SyncApp.current_project: None or Some(project)
    status,           \* SyncApp.status_var
    msgboxes,         \* messagebox dialogs shown by the handler that runs or,
                      \* in the main loop, by the handler that ran last
    pc,               \* position of the running handler ("idle": main loop)
    ret,              \* return value of the operation that just returned
    mode,             \* "none", "single" (a button's own operation), "full"
    step,             \* index of the running step of _full_sync (0: none)
    started,          \* steps of _full_sync called so far, in order
    step_results,     \* results of the steps of _full_sync that returned
    ran,              \* steps (0: a single operation) that ran an external command
    direction,        \* direction of the running sync
    local_files,      \* _detect_conflicts: local_files
    remote_files,     \* _detect_conflicts: remote_files
    examined,         \* _detect_conflicts: files the loop has gone through
    cur,              \* _detect_conflicts: f, local_time, remote_time of the loop's
                      \* last turn, with what the two stats answered
    conflicts,        \* the conflict list
    dlg_open,         \* ConflictDialog window exists
    results,          \* ConflictDialog.results
    cancelled,        \* ConflictDialog.cancelled
    current_index,    \* ConflictDialog.current_index
    apply_all_var,    \* ConflictDialog.apply_all_var
    exclude_files,    \* sync: exclude_files
    listing,          \* sync: the call _get_gitignored_files(local) that drives the
                      \* transfer, and the list it returned (None: not yet called)
    files,            \* sync: files after removing exclude_files
    temp_file,        \* sync: the file-list file named by temp_file, as its
                      \* contents (None: no such file)
    last_left_file,   \* record of the handler that ended last: an exception
                      \* ended it with its file-list file left on disk
    transfers,        \* rsync invocations of the running sync
    in_conflict,      \* files of the transfer that, at the moment rsync ran, were on
                      \* both sides with differing resolvable modification times
    is_dirty,         \* _git_push/_git_pull: is_dirty
    commit_open,      \* CommitDialog window exists
    commit_result,    \* CommitDialog.result
    func,             \* the operation running or just returned ("none": none)
    cmds,             \* kinds of external command the operation has run
    last_run,         \* the command the last step ran, with what _run_command
                      \* returned to its caller (None: the step ran no command)
    config_file,      \* CONFIG_FILE on disk
    config_writable,  \* open(CONFIG_FILE, 'w') succeeds: the path is no directory
                      \* and the user may write the file (or create it)
    projects,         \* Config.projects
    project_var,      \* SyncApp.project_var (the combobox)
    project_values,   \* the values of the combobox (project_combo['values'])
    buttons_enabled,  \* state of the five operation buttons
    pdlg_open,        \* ProjectDialog window exists
    pdlg_fields,      \* ProjectDialog: the five entry fields
    pdlg_result,      \* ProjectDialog.result
    raised,           \* the uncaught exception that ended the program, or None
    ssh_open,         \* SSHSetupDialog window exists (it holds the grab)
    ssh_box,          \* the message box _generate_key waits in before it loads
                      \* the key again ("": none)
    key_status_label, \* SSHSetupDialog.key_status_label
    key_text,         \* SSHSetupDialog.key_text
    remote_host_var   \* SSHSetupDialog.remote_host_var

orchVars == <<mode, step, started, step_results>>

detectVars == <<local_files, remote_files, examined, cur, conflicts>>

dlgVars == <<dlg_open, results, cancelled, current_index, apply_all_var>>

xferVars == <<exclude_files, listing, files, temp_file, transfers, in_conflict>>

gitVars == <<is_dirty, commit_open, commit_result>>

cmdVars == <<cmds, last_run>>

storeVars == <<config_file, config_writable, projects>>

pdlgVars == <<pdlg_open, pdlg_fields, pdlg_result>>

sshVars == <<ssh_open, ssh_box, key_status_label, key_text, remote_host_var>>

projVars ==
    <<storeVars, project_var, project_values, buttons_enabled, pdlgVars, raised, sshVars>>

vars ==
    <<current_project, status, msgboxes, pc, ret, direction, func, ran,
      orchVars, detectVars, dlgVars, xferVars, last_left_file, gitVars, cmdVars,
      projVars>>

\* The locals of a sync, push or pull before it has run.
FrameInit ==
    /\ direction = "none"
    /\ local_files = {} /\ remote_files = {} /\ examined = {} /\ cur = None
    /\ conflicts = << >>
    /\ dlg_open = FALSE /\ results = << >> /\ cancelled = FALSE
    /\ current_index = 0 /\ apply_all_var = FALSE
    /\ exclude_files = {} /\ listing = None /\ files = << >>
    /\ transfers = << >> /\ in_conflict = {}
    /\ is_dirty = FALSE /\ commit_open = FALSE /\ commit_result = None
    /\ func = "none" /\ cmds = {} /\ last_run = None

FrameReset ==
    /\ local_files' = {} /\ remote_files' = {} /\ examined' = {} /\ cur' = None
    /\ conflicts' = << >>
    /\ dlg_open' = FALSE /\ results' = << >> /\ cancelled' = FALSE
    /\ current_index' = 0 /\ apply_all_var' = FALSE
    /\ exclude_files' = {} /\ listing' = None /\ files' = << >>
    /\ transfers' = << >> /\ in_conflict' = {}
    /\ is_dirty' = FALSE /\ commit_open' = FALSE /\ commit_result' = None
    /\ cmds' = {} /\ last_run' = None

\* No SSHSetupDialog exists.
NoSshDialog ==
    /\ ssh_open = FALSE
    /\ ssh_box = ""
    /\ key_status_label = "" /\ key_text = "" /\ remote_host_var = ""

\* SyncApp.__init__: no handler runs; the first configured project, if the
\* store holds one, is selected by _update_project_list.
Init ==
    /\ current_project \in {None, Some(ProjectA)}
    /\ status = "Ready"
    /\ msgboxes = {}
    /\ pc = "idle"
    /\ ret = None
    /\ mode = "none" /\ step = 0 /\ started = << >> /\ step_results = << >>
    /\ ran = {}
    /\ temp_file = None
    /\ last_left_file = FALSE
    /\ FrameInit
    /\ projects = PyList(IF current_project = None THEN << >> ELSE <<ProjectA>>)
    /\ config_file = IF current_project = None THEN File("missing", NoData)
                      ELSE save(File("missing", NoData), projects, TRUE).file
    /\ config_writable = TRUE
    /\ project_var = IF current_project = None THEN "" ELSE ProjectA.name
    /\ project_values = get_project_names(projects.items)
    /\ buttons_enabled = (current_project # None)
    /\ pdlg_open = FALSE /\ pdlg_fields = Prefill(None) /\ pdlg_result = None
    /\ raised = None
    /\ NoSshDialog

(* --------------------------- sync operations --------------------------- *)

common_files == local_files \cap remote_files

\* Mutant of no_project: the operations do not test the current project.
no_project_untested == FALSE

\* `if not self.current_project`
no_project == current_project = None

\* A step that calls _run_command: the command's kind, what subprocess.run
\* did, and the (success, output) handed back to the caller.
Executed(cmd, e) ==
    /\ cmds' = cmds \cup {cmd}
    /\ last_run' = Some([cmd |-> cmd, exec |-> e, result |-> run_command(e)])

\* A step that calls no external command.
NoCommand == last_run' = None /\ UNCHANGED cmds

SyncFunc(dir) == IF dir = "to_remote" THEN "sync_to_remote" ELSE "sync_from_remote"

SyncingStatus(dir) ==
    IF dir = "to_remote" THEN "Syncing untracked files to remote..."
    ELSE "Syncing untracked files from remote..."

\* Mutant of HandlerStart: a button's handler starts wherever the running
\* handler is (no grab, no blocking call).
HandlerStart_unguarded(m) ==
    /\ mode' = m
    /\ msgboxes' = {}
    /\ ran' = {}
    /\ last_left_file' = FALSE

\* A handler called from the main loop starts with a fresh record of what
\* it showed and ran.  The main loop dispatches a button only when no handler
\* is inside subprocess.run and no dialog holds the grab.
HandlerStart(m) ==
    /\ pc = "idle"
    /\ ~ssh_open
    /\ mode' = m
    /\ msgboxes' = {}
    /\ ran' = {}
    /\ last_left_file' = FALSE

\* The handlers that are no operation start with a fresh record too: what
\* the last operation ran and returned is not theirs.
FreshRecord ==
    /\ ran' = {}
    /\ ret' = None
    /\ step' = 0 /\ started' = << >> /\ step_results' = << >>
    /\ last_left_file' = FALSE

\* The state of a running operation, which no other handler touches.
frameVars ==
    <<mode, direction, func, detectVars, dlgVars, xferVars, gitVars, cmdVars>>

\* _sync_to_remote / _sync_from_remote up to their first external command.
\* entry: the status on entry.
SyncBegin(dir, resolve, entry) ==
    /\ func' = SyncFunc(dir)
    /\ IF no_project
       THEN /\ pc' = "returned"
            /\ ret' = Some(FALSE)
            /\ status' = entry
            /\ direction' = "none"
       ELSE /\ direction' = dir
            /\ ret' = None
            /\ IF resolve
               THEN status' = "Checking for conflicts..." /\ pc' = "detect_local"
               ELSE status' = SyncingStatus(dir) /\ pc' = "list_files"

\* The "Sync to Remote" button (resolve_conflicts = True), or a direct call.
sync_to_remote ==
    /\ HandlerStart("single")
    /\ \E resolve \in BOOLEAN : SyncBegin("to_remote", resolve, status)
    /\ step' = 0 /\ started' = << >> /\ step_results' = << >>
    /\ UNCHANGED <<current_project, detectVars, dlgVars, xferVars, gitVars>>
    /\ NoCommand
    /\ UNCHANGED projVars

\* The "Sync from Remote" button, or a direct call.
sync_from_remote ==
    /\ HandlerStart("single")
    /\ \E resolve \in BOOLEAN : SyncBegin("from_remote", resolve, status)
    /\ step' = 0 /\ started' = << >> /\ step_results' = << >>
    /\ UNCHANGED <<current_project, detectVars, dlgVars, xferVars, gitVars>>
    /\ NoCommand
    /\ UNCHANGED projVars

\* _detect_conflicts: the local listing.
detect_list_local ==
    /\ pc = "detect_local"
    /\ \E e \in ListingExecs :
          /\ local_files' = Range(get_gitignored_files(e))
          /\ Executed("ls_local", e)
    /\ ran' = ran \cup {step}
    /\ pc' = "detect_remote"
    /\ UNCHANGED <<current_project, status, msgboxes, ret, direction, func, orchVars,
                   remote_files, examined, cur, conflicts, dlgVars, xferVars, gitVars>>
    /\ UNCHANGED projVars
    /\ UNCHANGED last_left_file

\* _detect_conflicts: the remote listing.
detect_list_remote ==
    /\ pc = "detect_remote"
    /\ \E e \in ListingExecs :
          /\ remote_files' = Range(get_gitignored_files(e))
          /\ Executed("ls_remote", e)
    /\ ran' = ran \cup {step}
    /\ pc' = "detect_loop"
    /\ UNCHANGED <<current_project, status, msgboxes, ret, direction, func, orchVars,
                   local_files, examined, cur, conflicts, dlgVars, xferVars, gitVars>>
    /\ UNCHANGED projVars
    /\ UNCHANGED last_left_file

\* Mutant of add_conflict: the list is started anew with the entry.
add_conflict_replacing(cs, c) == <<c>>

\* conflicts.append({...})
add_conflict(cs, c) == Append(cs, c)

\* _detect_conflicts: one iteration of the loop over common_files (a set:
\* the iteration order is any order).
detect_examine ==
    /\ pc = "detect_loop"
    /\ \E f \in common_files \ examined, st \in LocalStats, e \in StatExecs :
          LET local_time == get_file_mtime_local(st)
              remote_time == get_file_mtime_remote(e)
              c == [file |-> f, local_time |-> local_time, remote_time |-> remote_time]
          IN  /\ cur' = Some([file |-> f, local_stat |-> st, remote_exec |-> e,
                               local_time |-> local_time, remote_time |-> remote_time])
              /\ conflicts' = IF is_conflict(local_time, remote_time)
                              THEN add_conflict(conflicts, c) ELSE conflicts
              /\ examined' = examined \cup {f}
              /\ Executed("stat_remote", e)
    /\ ran' = ran \cup {step}
    /\ UNCHANGED <<current_project, status, msgboxes, pc, ret, direction, func, orchVars,
                   local_files, remote_files, dlgVars, xferVars, gitVars>>
    /\ UNCHANGED projVars
    /\ UNCHANGED last_left_file

\* _detect_conflicts returns; the sync opens the ConflictDialog on a
\* non-empty list (ConflictDialog.__init__), else goes on with no exclusion.
detect_return ==
    /\ pc = "detect_loop"
    /\ examined = common_files
    /\ IF conflicts # << >>
       THEN /\ dlg_open' = TRUE
            /\ results' = << >>
            /\ cancelled' = FALSE
            /\ current_index' = 0
            /\ apply_all_var' = FALSE
            /\ pc' = "dialog"
            /\ UNCHANGED <<status, exclude_files>>
       ELSE /\ exclude_files' = {}
            /\ status' = SyncingStatus(direction)
            /\ pc' = "list_files"
            /\ UNCHANGED dlgVars
    /\ local_files' = {} /\ remote_files' = {} /\ examined' = {} /\ cur' = None
    /\ UNCHANGED <<current_project, msgboxes, ret, direction, func, ran, orchVars,
                   conflicts, listing, files, temp_file, transfers, in_conflict,
                   gitVars>>
    /\ NoCommand
    /\ UNCHANGED projVars
    /\ UNCHANGED last_left_file

(* --------------------------- ConflictDialog ---------------------------- *)

ConflictFiles == [i \in 1..Len(conflicts) |-> conflicts[i].file]

\* Mutant of resolve_results: "apply to all" overwrites the earlier decisions
\* too (range(0, n) for range(current_index + 1, n)).
resolve_results_overwriting(choice, apply_all) ==
    LET f == conflicts[current_index + 1].file
        every == IF apply_all THEN {conflicts[i].file : i \in 1..Len(conflicts)} ELSE {}
    IN  [g \in DOMAIN results \cup {f} \cup every |->
            IF g = f \/ g \in every THEN choice ELSE results[g]]

\* ConflictDialog._resolve: results after the decision `choice`, apply_all
\* telling whether "apply to all remaining" is set.
resolve_results(choice, apply_all) ==
    LET f == conflicts[current_index + 1].file
        remaining == IF apply_all
                     THEN {conflicts[i].file : i \in (current_index + 2)..Len(conflicts)}
                     ELSE {}
    IN  [g \in DOMAIN results \cup {f} \cup remaining |->
            IF g = f \/ g \in remaining THEN choice ELSE results[g]]

\* Mutant of still_showing: the index is not tested against the length.
still_showing_untested(index) == TRUE

\* ConflictDialog._show_conflict: the dialog stays open for an index inside
\* the list, and is destroyed otherwise.
still_showing(index) == index < Len(conflicts)

\* ConflictDialog._resolve (a press of Use Local, Use Remote or Skip).
resolve ==
    /\ pc = "dialog"
    /\ dlg_open
    /\ \E choice \in Choices :
          results' = resolve_results(choice, apply_all_var)
    /\ IF apply_all_var
       THEN dlg_open' = FALSE /\ UNCHANGED current_index
       ELSE /\ current_index' = current_index + 1
            /\ dlg_open' = still_showing(current_index + 1)
    /\ UNCHANGED <<current_project, status, msgboxes, pc, ret, direction, func, ran, orchVars,
                   detectVars, cancelled, apply_all_var, xferVars, gitVars>>
    /\ NoCommand
    /\ UNCHANGED projVars
    /\ UNCHANGED last_left_file

\* The "Apply to all remaining conflicts" checkbutton.
toggle_apply_all ==
    /\ pc = "dialog"
    /\ dlg_open
    /\ apply_all_var' = ~apply_all_var
    /\ UNCHANGED <<current_project, status, msgboxes, pc, ret, direction, func, ran, orchVars,
                   detectVars, dlg_open, results, cancelled, current_index, xferVars,
                   gitVars>>
    /\ NoCommand
    /\ UNCHANGED projVars
    /\ UNCHANGED last_left_file

\* ConflictDialog._cancel (the "Cancel All" button).
cancel ==
    /\ pc = "dialog"
    /\ dlg_open
    /\ cancelled' = TRUE
    /\ dlg_open' = FALSE
    /\ UNCHANGED <<current_project, status, msgboxes, pc, ret, direction, func, ran, orchVars,
                   detectVars, results, current_index, apply_all_var, xferVars, gitVars>>
    /\ NoCommand
    /\ UNCHANGED projVars
    /\ UNCHANGED last_left_file

\* The window manager's close button: ConflictDialog installs no
\* WM_DELETE_WINDOW handler, so Tk destroys the window and nothing else.
close_window ==
    /\ pc = "dialog"
    /\ dlg_open
    /\ dlg_open' = FALSE
    /\ UNCHANGED <<current_project, status, msgboxes, pc, ret, direction, func, ran, orchVars,
                   detectVars, results, cancelled, current_index, apply_all_var,
                   xferVars, gitVars>>
    /\ NoCommand
    /\ UNCHANGED projVars
    /\ UNCHANGED last_left_file

\* Mutant of excluded: only the files decided for the other side are
\* excluded, the skipped ones are not.
excluded_without_skip(dir) ==
    {f \in DOMAIN results : results[f] \notin {KeepChoice(dir), "skip"}}

\* exclude_files of a sync of direction dir: [f for f, choice in
\* dialog.results.items() if choice != keep].  The list is only ever tested
\* for membership, so it is held as the set of its elements.
excluded(dir) == {f \in DOMAIN results : results[f] # KeepChoice(dir)}

\* Mutant of dialog_cancelled: the sync does not test the flag.
dialog_cancelled_untested == FALSE

\* `if dialog.cancelled`
dialog_cancelled == cancelled

\* wait_window returns: the sync reads dialog.cancelled and dialog.results.
\* The conflict list is not read again and is dropped here.
dialog_returned ==
    /\ pc = "dialog"
    /\ ~dlg_open
    /\ IF dialog_cancelled
       THEN /\ status' = "Sync cancelled"
            /\ pc' = "returned"
            /\ ret' = Some(FALSE)
            /\ UNCHANGED exclude_files
       ELSE /\ exclude_files' = excluded(direction)
            /\ status' = SyncingStatus(direction)
            /\ pc' = "list_files"
            /\ UNCHANGED ret
    /\ conflicts' = << >>
    /\ UNCHANGED <<current_project, msgboxes, direction, func, ran, orchVars, local_files,
                   remote_files, examined, cur, dlgVars, listing, files,
                   temp_file, transfers, in_conflict, gitVars>>
    /\ NoCommand
    /\ UNCHANGED projVars
    /\ UNCHANGED last_left_file

(* ------------------------------ transfer ------------------------------- *)

\* The side whose untracked files drive the transfer of a direction: the
\* `local` argument of _get_gitignored_files.
list_local(dir) == dir = "to_remote"

\* Mutant of nothing_to_sync: the empty list is not tested.
nothing_to_sync_untested(fs) == FALSE

\* `if not files`: nothing is left to transfer.
nothing_to_sync(fs) == fs = << >>

\* files = [f for f in files if f not in exclude_files]
filter_files(listed, exclude) == SelectSeq(listed, LAMBDA f : f \notin exclude)

\* The rsync command line: its --files-from contents and its two roots.
rsync_command(dir, contents) ==
    LET p == current_project[1]
        local_root == p.local_path \o "/"
        remote_root == p.remote_host \o ":" \o p.remote_path \o "/"
    IN  [files_from |-> contents,
         src |-> IF dir = "to_remote" THEN local_root ELSE remote_root,
         dst |-> IF dir = "to_remote" THEN remote_root ELSE local_root]

SyncedStatus(dir, n) ==
    "Synced " \o DigitStrings[n + 1] \o
        (IF dir = "to_remote" THEN " files to remote" ELSE " files from remote")

RsyncExecs ==
    {Exited(0, <<"sent 120 bytes">>), Exited(23, <<"rsync error: some files could not be transferred">>),
     TimedOut}

\* '\n'.join(files): the text written to the file-list file.
RECURSIVE join_lines(_)
join_lines(fs) ==
    IF fs = << >> THEN ""
    ELSE IF Len(fs) = 1 THEN fs[1]
    ELSE fs[1] \o "\n" \o join_lines(Tail(fs))

\* text.split('\n'), piece being the one in hand.
RECURSIVE split_lines(_, _)
split_lines(text, piece) ==
    IF text = "" THEN <<piece>>
    ELSE IF SubSeq(text, 1, 1) = "\n"
    THEN <<piece>> \o split_lines(SubSeq(text, 2, Len(text)), "")
    ELSE split_lines(SubSeq(text, 2, Len(text)), piece \o SubSeq(text, 1, 1))

\* The names a file of this text holds, one per line: the pieces between
\* the line ends, a line end at the end of the text starting no name.
file_names(text) ==
    LET pieces == split_lines(text, "")
    IN  IF pieces[Len(pieces)] = "" THEN SubSeq(pieces, 1, Len(pieces) - 1) ELSE pieces

\* with tempfile.NamedTemporaryFile(mode='w', delete=False, suffix='.txt')
\* as tf: tf.write('\n'.join(files)), which stands before the try.  Either
\* the file is written and closed, or NamedTemporaryFile raises and there is
\* no file, or tf.write or the close at the end of the with-block raises and
\* the file is there with the first n characters of the text, which may end
\* inside a name.
write_file_list(fs) ==
    LET text == join_lines(fs)
    IN  {[file |-> Some(file_names(text)), raised |-> FALSE],
         [file |-> None, raised |-> TRUE]} \cup
        {[file |-> Some(file_names(SubSeq(text, 1, n))), raised |-> TRUE] :
            n \in 0..Len(text)}

\* The listing that drives the transfer (local for to_remote, remote for
\* from_remote), the filter, and the file-list file.  An exception of the
\* file's creation or write is caught nowhere: it leaves the sync.
list_files ==
    /\ pc = "list_files"
    /\ \E e \in ListingExecs :
          LET listed == get_gitignored_files(e)
              kept == filter_files(listed, exclude_files)
          IN  /\ listing' = Some([local |-> list_local(direction), files |-> listed])
              /\ files' = kept
              /\ Executed(IF list_local(direction) THEN "ls_local" ELSE "ls_remote", e)
              /\ IF nothing_to_sync(kept)
                 THEN /\ status' = "No untracked files to sync"
                      /\ pc' = "returned"
                      /\ ret' = Some(TRUE)
                      /\ UNCHANGED temp_file
                 ELSE /\ \E w \in write_file_list(kept) :
                            /\ temp_file' = w.file
                            /\ pc' = IF w.raised THEN "sync_raised" ELSE "rsync"
                      /\ UNCHANGED <<status, ret>>
    /\ ran' = ran \cup {step}
    /\ UNCHANGED <<current_project, msgboxes, direction, func, orchVars, detectVars, dlgVars,
                   exclude_files, transfers, in_conflict, gitVars>>
    /\ UNCHANGED projVars
    /\ UNCHANGED last_left_file

\* The exception of the file's creation or write leaves _sync_to_remote or
\* _sync_from_remote before the try, so os.unlink is not reached, and leaves
\* _full_sync when that called the sync: Tk reports the exception of the
\* callback and the main loop goes on.  No status is set, no box is shown, no
\* value is returned and no later step is called; the file, if it was
\* created, stays on disk.  The steps that were called, and the results of
\* those that returned, stay as they are: the step the exception left was
\* called and has no result.
sync_raised ==
    /\ pc = "sync_raised"
    /\ last_left_file' = (temp_file # None)
    /\ temp_file' = None
    /\ pc' = "idle"
    /\ mode' = "none"
    /\ step' = 0
    /\ ret' = None
    /\ direction' = "none"
    /\ func' = "none"
    /\ FrameReset
    /\ UNCHANGED <<current_project, status, msgboxes, ran, started, step_results>>
    /\ UNCHANGED projVars

\* Mutant of showerror: the box is an information box.
showerror_as_info(text) == [kind |-> "info", text |-> text]

\* messagebox.showerror with the lines of its message.
showerror(text) == [kind |-> "error", text |-> text]

\* Mutant of ErrorBox: the command's output is left out of the message.
ErrorBox_without_output(text, output) == showerror(<<text>>)

\* The error box of a failed command: f"<text>\n{output}".
ErrorBox(text, output) == showerror(<<text>> \o output)

\* What the two sides may hold when rsync runs: any of the files of the
\* transfer, on both sides with differing times.
ConflictsNow(fs) == SUBSET Range(fs)

\* os.unlink(temp_file): the file is gone.
unlink(f) == None

\* The rsync run inside the try.  A success sets the status, the finally
\* clause removes the file and the sync returns True.  A failure sets the
\* status and shows the error box: the handler waits in messagebox.showerror
\* with the file still on disk.
rsync ==
    /\ pc = "rsync"
    /\ \E e \in RsyncExecs :
          LET r == run_command(e)
          IN  /\ Executed("rsync", e)
              /\ IF r.success
                 THEN /\ status' = SyncedStatus(direction, Len(files))
                      /\ ret' = Some(TRUE)
                      /\ temp_file' = unlink(temp_file)
                      /\ pc' = "returned"
                      /\ UNCHANGED msgboxes
                 ELSE /\ status' = "Sync failed"
                      /\ msgboxes' = msgboxes \cup {ErrorBox("Sync failed:", r.output)}
                      /\ pc' = "sync_failed"
                      /\ UNCHANGED <<ret, temp_file>>
    /\ transfers' = Append(transfers, rsync_command(direction, temp_file[1]))
    /\ \E now \in ConflictsNow(files) : in_conflict' = now
    /\ ran' = ran \cup {step}
    /\ UNCHANGED <<current_project, direction, func, orchVars, detectVars, dlgVars,
                   exclude_files, listing, files, gitVars>>
    /\ UNCHANGED projVars
    /\ UNCHANGED last_left_file

\* The user dismisses the error box of a failed transfer: `return False`
\* through the finally clause, which removes the file.
sync_failed_return ==
    /\ pc = "sync_failed"
    /\ temp_file' = unlink(temp_file)
    /\ ret' = Some(FALSE)
    /\ pc' = "returned"
    /\ UNCHANGED <<current_project, status, msgboxes, direction, func, ran, orchVars,
                   detectVars, dlgVars, exclude_files, listing, files, transfers,
                   in_conflict, gitVars>>
    /\ NoCommand
    /\ UNCHANGED projVars
    /\ UNCHANGED last_left_file

(* ---------------------------- git operations --------------------------- *)

\* Outcomes of `git status --porcelain`.
StatusExecs ==
    {Exited(0, << >>), Exited(0, <<" M sync_tool.py">>),
     Exited(128, <<"fatal: not a git repository">>), TimedOut, NoSuchDirectory}

\* Outcomes of commit, push and pull.
GitExecs ==
    {Exited(0, <<"done">>), Exited(1, <<"error: failed">>), TimedOut, NoSuchDirectory}

\* Mutant of get_git_status: a failed query counts as a dirty tree.
get_git_status_failure_dirty(e) ==
    LET r == run_command(e)
    IN  IF ~r.success THEN TRUE ELSE r.output # << >>

\* _get_git_status: is_dirty.
get_git_status(e) ==
    LET r == run_command(e)
    IN  IF ~r.success THEN FALSE ELSE r.output # << >>

\* _git_push up to its first external command.
PushBegin(entry) ==
    /\ direction' = "none"
    /\ func' = "git_push"
    /\ IF no_project
       THEN /\ pc' = "returned"
            /\ ret' = Some(FALSE)
            /\ status' = entry
       ELSE /\ status' = "Checking for uncommitted changes..."
            /\ pc' = "push_status"
            /\ ret' = None

\* _git_pull up to its first external command.
PullBegin(entry) ==
    /\ direction' = "none"
    /\ func' = "git_pull"
    /\ status' = entry
    /\ IF no_project
       THEN pc' = "returned" /\ ret' = Some(FALSE)
       ELSE pc' = "pull_status" /\ ret' = None

\* The "Push to Remote" button.
git_push ==
    /\ HandlerStart("single")
    /\ PushBegin(status)
    /\ step' = 0 /\ started' = << >> /\ step_results' = << >>
    /\ UNCHANGED <<current_project, detectVars, dlgVars, xferVars, gitVars>>
    /\ NoCommand
    /\ UNCHANGED projVars

\* The "Pull from Remote" button.
git_pull ==
    /\ HandlerStart("single")
    /\ PullBegin(status)
    /\ step' = 0 /\ started' = << >> /\ step_results' = << >>
    /\ UNCHANGED <<current_project, detectVars, dlgVars, xferVars, gitVars>>
    /\ NoCommand
    /\ UNCHANGED projVars

\* _git_push: the dirtiness query; a dirty tree opens the CommitDialog.
push_git_status ==
    /\ pc = "push_status"
    /\ \E e \in StatusExecs :
          LET dirty == get_git_status(e)
          IN  /\ is_dirty' = dirty
              /\ Executed("git_status", e)
              /\ IF dirty
                 THEN /\ commit_open' = TRUE
                      /\ commit_result' = None
                      /\ pc' = "commit_dialog"
                      /\ UNCHANGED status
                 ELSE /\ status' = "Pushing to remote..."
                      /\ pc' = "push_cmd"
                      /\ UNCHANGED <<commit_open, commit_result>>
    /\ ran' = ran \cup {step}
    /\ UNCHANGED <<current_project, msgboxes, ret, direction, func, orchVars, detectVars,
                   dlgVars, xferVars>>
    /\ UNCHANGED projVars
    /\ UNCHANGED last_left_file

\* What the user may type as a commit message (a sequence of characters).
MessageInputs == {<< >>, <<"\f", " ">>, <<"w", "i", "p">>, <<" ", "\"", "x", "">>}

\* CommitDialog._commit ("Commit & Push" or Return).
commit ==
    /\ pc = "commit_dialog"
    /\ commit_open
    /\ \E typed \in MessageInputs :
          LET msg == strip(typed)
          IN  IF msg = << >>
              THEN /\ msgboxes' = msgboxes \cup
                        {showerror(<<"Commit message is required">>)}
                   /\ UNCHANGED <<commit_open, commit_result>>
              ELSE /\ commit_result' = Some(msg)
                   /\ commit_open' = FALSE
                   /\ UNCHANGED msgboxes
    /\ UNCHANGED <<current_project, status, pc, ret, direction, func, ran, orchVars,
                   detectVars, dlgVars, xferVars, is_dirty>>
    /\ NoCommand
    /\ UNCHANGED projVars
    /\ UNCHANGED last_left_file

\* CommitDialog's Cancel button (command=self.destroy) or the window's
\* close button.
commit_cancel ==
    /\ pc = "commit_dialog"
    /\ commit_open
    /\ commit_open' = FALSE
    /\ UNCHANGED <<current_project, status, msgboxes, pc, ret, direction, func, ran, orchVars,
                   detectVars, dlgVars, xferVars, is_dirty, commit_result>>
    /\ NoCommand
    /\ UNCHANGED projVars
    /\ UNCHANGED last_left_file

\* Mutant of push_cancelled: the dialog's result is not tested.
push_cancelled_untested == FALSE

\* `if not dialog.result`: the CommitDialog gave no message.
push_cancelled == commit_result = None

\* wait_window returns: _git_push reads dialog.result.
commit_returned ==
    /\ pc = "commit_dialog"
    /\ ~commit_open
    /\ IF push_cancelled
       THEN /\ status' = "Push cancelled"
            /\ pc' = "returned"
            /\ ret' = Some(FALSE)
       ELSE /\ status' = "Committing changes..."
            /\ pc' = "commit_cmd"
            /\ UNCHANGED ret
    /\ UNCHANGED <<current_project, msgboxes, direction, func, ran, orchVars, detectVars,
                   dlgVars, xferVars, gitVars>>
    /\ NoCommand
    /\ UNCHANGED projVars
    /\ UNCHANGED last_left_file

\* Mutant of commit_ok: the commit's result is not tested.
commit_ok_untested(r) == TRUE

\* `if not success` after the commit: the push goes on only after a commit
\* that succeeded.
commit_ok(r) == r.success

\* _git_push: git add -A && git commit.
commit_cmd ==
    /\ pc = "commit_cmd"
    /\ \E e \in GitExecs :
          LET r == run_command(e)
          IN  /\ Executed("git_commit", e)
              /\ IF commit_ok(r)
                 THEN /\ status' = "Pushing to remote..."
                      /\ pc' = "push_cmd"
                      /\ UNCHANGED <<msgboxes, ret>>
                 ELSE /\ status' = "Commit failed"
                      /\ msgboxes' = msgboxes \cup {ErrorBox("Commit failed:", r.output)}
                      /\ pc' = "returned"
                      /\ ret' = Some(FALSE)
    /\ ran' = ran \cup {step}
    /\ UNCHANGED <<current_project, direction, func, orchVars, detectVars, dlgVars, xferVars,
                   gitVars>>
    /\ UNCHANGED projVars
    /\ UNCHANGED last_left_file

\* _git_push: git push origin <branch>.
push_cmd ==
    /\ pc = "push_cmd"
    /\ \E e \in GitExecs :
          LET r == run_command(e)
          IN  /\ Executed("git_push", e)
              /\ IF r.success
                 THEN /\ status' = "Push successful"
                      /\ ret' = Some(TRUE)
                      /\ UNCHANGED msgboxes
                 ELSE /\ status' = "Push failed"
                      /\ msgboxes' = msgboxes \cup {ErrorBox("Push failed:", r.output)}
                      /\ ret' = Some(FALSE)
    /\ pc' = "returned"
    /\ ran' = ran \cup {step}
    /\ UNCHANGED <<current_project, direction, func, orchVars, detectVars, dlgVars, xferVars,
                   gitVars>>
    /\ UNCHANGED projVars
    /\ UNCHANGED last_left_file

\* _git_pull: the dirtiness query; a dirty tree asks for confirmation.
pull_git_status ==
    /\ pc = "pull_status"
    /\ \E e \in StatusExecs :
          LET dirty == get_git_status(e)
          IN  /\ is_dirty' = dirty
              /\ Executed("git_status", e)
              /\ IF dirty
                 THEN pc' = "pull_confirm" /\ UNCHANGED status
                 ELSE pc' = "pull_cmd" /\ status' = "Pulling from remote..."
    /\ ran' = ran \cup {step}
    /\ UNCHANGED <<current_project, msgboxes, ret, direction, func, orchVars, detectVars,
                   dlgVars, xferVars, commit_open, commit_result>>
    /\ UNCHANGED projVars
    /\ UNCHANGED last_left_file

\* messagebox.askyesno with the answer the user gave.
askyesno(title, answer) == [kind |-> "askyesno", text |-> <<title>>, answer |-> answer]

\* Mutant of pull_declined: the answer is not tested.
pull_declined_untested(answer) == FALSE

\* `if not messagebox.askyesno(...)`
pull_declined(answer) == ~answer

\* _git_pull: the answer to messagebox.askyesno.
pull_confirm ==
    /\ pc = "pull_confirm"
    /\ \E yes \in BOOLEAN :
          /\ msgboxes' = msgboxes \cup {askyesno("Warning", yes)}
          /\ IF pull_declined(yes)
             THEN /\ status' = "Pull cancelled"
                  /\ pc' = "returned"
                  /\ ret' = Some(FALSE)
             ELSE /\ status' = "Pulling from remote..."
                  /\ pc' = "pull_cmd"
                  /\ UNCHANGED ret
    /\ UNCHANGED <<current_project, direction, func, ran, orchVars, detectVars,
                   dlgVars, xferVars, gitVars>>
    /\ NoCommand
    /\ UNCHANGED projVars
    /\ UNCHANGED last_left_file

\* _git_pull: git pull origin <branch>.
pull_cmd ==
    /\ pc = "pull_cmd"
    /\ \E e \in GitExecs :
          LET r == run_command(e)
          IN  /\ Executed("git_pull", e)
              /\ IF r.success
                 THEN /\ status' = "Pull successful"
                      /\ ret' = Some(TRUE)
                      /\ UNCHANGED msgboxes
                 ELSE /\ status' = "Pull failed"
                      /\ msgboxes' = msgboxes \cup {ErrorBox("Pull failed:", r.output)}
                      /\ ret' = Some(FALSE)
    /\ pc' = "returned"
    /\ ran' = ran \cup {step}
    /\ UNCHANGED <<current_project, direction, func, orchVars, detectVars, dlgVars, xferVars,
                   gitVars>>
    /\ UNCHANGED projVars
    /\ UNCHANGED last_left_file

(* ------------------------------ full sync ------------------------------ *)

\* The steps list of _full_sync: (step_name, function).
Steps ==
    <<[name |-> "Syncing untracked to remote", func |-> "sync_to_remote"],
      [name |-> "Pushing to git", func |-> "git_push"],
      [name |-> "Pulling from git", func |-> "git_pull"],
      [name |-> "Syncing untracked from remote", func |-> "sync_from_remote"]>>

\* Mutant of step_halts: the loop ignores the step's result.
step_halts_ignored(r) == FALSE

\* `if not step_func()`: the pipeline stops at this result.
step_halts(r) == ~r

\* Mutant of next_step: the loop skips a step.
next_step_skipping(i) == IF i + 2 <= 4 THEN i + 2 ELSE i + 1

\* The step the loop turns to after step i.
next_step(i) == i + 1

\* One turn of the loop of _full_sync: the status, then step_func().
StepCall(i) ==
    LET entry == Steps[i].name \o "..."
        step_func == Steps[i].func
    IN  /\ step' = i
        /\ started' = Append(started, step_func)
        /\ IF step_func = "sync_to_remote" THEN SyncBegin("to_remote", TRUE, entry)
           ELSE IF step_func = "git_push" THEN PushBegin(entry)
           ELSE IF step_func = "git_pull" THEN PullBegin(entry)
           ELSE SyncBegin("from_remote", TRUE, entry)

\* The "Full Sync" button: _full_sync up to the first step's first command.
full_sync ==
    /\ pc = "idle"
    /\ ~ssh_open
    /\ msgboxes' = {}
    /\ ran' = {}
    /\ last_left_file' = FALSE
    /\ step_results' = << >>
    /\ IF no_project
       THEN /\ ret' = None
            /\ started' = << >>
            /\ UNCHANGED <<pc, status, direction, func, mode, step>>
       ELSE /\ mode' = "full"
            /\ started' = <<Steps[1].func>>
            /\ step' = 1
            /\ SyncBegin("to_remote", TRUE, Steps[1].name \o "...")
    /\ UNCHANGED <<current_project, detectVars, dlgVars, xferVars, gitVars>>
    /\ NoCommand
    /\ UNCHANGED projVars

\* A step of _full_sync returned: stop at a non-success, report after the
\* last step, else call the next step.
full_sync_next ==
    /\ pc = "returned"
    /\ mode = "full"
    /\ step_results' = Append(step_results, ret[1])
    /\ FrameReset
    /\ IF step_halts(ret[1])
       THEN /\ status' = "Full sync stopped at: " \o Steps[step].name
            /\ pc' = "idle"
            /\ mode' = "none"
            /\ step' = 0
            /\ ret' = None
            /\ direction' = "none"
            /\ func' = "none"
            /\ UNCHANGED <<started, msgboxes>>
       ELSE IF step = Len(Steps)
       THEN /\ status' = "Full sync complete!"
            /\ msgboxes' = msgboxes \cup
                  {[kind |-> "info", text |-> <<"Full sync completed successfully!">>]}
            /\ pc' = "idle"
            /\ mode' = "none"
            /\ step' = 0
            /\ ret' = None
            /\ direction' = "none"
            /\ func' = "none"
            /\ UNCHANGED started
       ELSE /\ StepCall(next_step(step))
            /\ UNCHANGED <<mode, msgboxes>>
    /\ UNCHANGED <<current_project, ran, temp_file>>
    /\ UNCHANGED projVars
    /\ UNCHANGED last_left_file

\* A button's own operation returned to the main loop.
handler_return ==
    /\ pc = "returned"
    /\ mode = "single"
    /\ pc' = "idle"
    /\ mode' = "none"
    /\ direction' = "none"
    /\ func' = "none"
    /\ FrameReset
    /\ UNCHANGED <<current_project, status, msgboxes, ret, ran, step, started,
                   step_results, temp_file>>
    /\ UNCHANGED projVars
    /\ UNCHANGED last_left_file

(* --------------------------- connection test --------------------------- *)

\* Outcomes of `ssh -o ConnectTimeout=10 -o BatchMode=yes <host> "echo connected"`.
SshTestExecs ==
    {Exited(0, <<"connected">>), Exited(0, <<"Last login: today", "connected">>),
     Exited(0, << >>),
     Exited(255, <<"ssh: connect to host mac2 port 22: Connection refused">>),
     TimedOut}

\* `sub in text` of two strings.
contains(text, sub) ==
    \E i \in 1..(Len(text) + 1) :
       /\ i + Len(sub) - 1 <= Len(text)
       /\ SubSeq(text, i, i + Len(sub) - 1) = sub

\* `sub in output` for a sub of one line and an output held as its lines.
in_output(sub, output) == \E k \in 1..Len(output) : contains(output[k], sub)

\* `if success and "connected" in output`
connection_ok(r) == r.success /\ in_output("connected", r.output)

\* messagebox.showinfo with the lines of its message.
showinfo(text) == [kind |-> "info", text |-> text]

\* The error box of a failed connection test; its last line is
\* f"Error: {output}".
ConnectionFailedBox(host, output) ==
    showerror(<<"Could not connect to " \o host, "", "Make sure:",
                "1. SSH keys are set up for passwordless login",
                "2. The host is reachable",
                "3. The host alias exists in ~/.ssh/config", "">>
              \o (IF output = << >> THEN <<"Error: ">>
                  ELSE <<"Error: " \o Head(output)>> \o Tail(output)))

\* The "Test SSH" button: _test_connection up to its command.  The button
\* is never disabled.  With a project the status is set and shown
\* (update_idletasks) and the handler waits in subprocess.run.
test_connection ==
    /\ pc = "idle"
    /\ ~ssh_open
    /\ msgboxes' = IF current_project = None
                   THEN {showerror(<<"No project selected">>)} ELSE {}
    /\ FreshRecord
    /\ IF current_project = None
       THEN UNCHANGED <<status, pc, func>>
       ELSE /\ status' = "Testing SSH connection..."
            /\ pc' = "test_ssh"
            /\ func' = "test_connection"
    /\ UNCHANGED <<current_project, mode, direction, detectVars, dlgVars, xferVars,
                   gitVars, cmdVars>>
    /\ UNCHANGED projVars

\* ssh returned (or timed out): the status and the message box, in which the
\* handler waits.
test_ssh ==
    /\ pc = "test_ssh"
    /\ \E e \in SshTestExecs :
          LET r == run_command(e)
              host == current_project[1].remote_host
          IN  /\ Executed("ssh", e)
              /\ IF connection_ok(r)
                 THEN /\ status' = "Connection successful!"
                      /\ msgboxes' =
                            {showinfo(<<"Successfully connected to " \o host>>)}
                 ELSE /\ status' = "Connection failed"
                      /\ msgboxes' = {ConnectionFailedBox(host, r.output)}
    /\ ran' = {0}
    /\ pc' = "test_box"
    /\ UNCHANGED <<current_project, ret, direction, func, orchVars, detectVars,
                   dlgVars, xferVars, gitVars>>
    /\ UNCHANGED projVars
    /\ UNCHANGED last_left_file

\* The box is dismissed and _test_connection returns to the main loop.
test_return ==
    /\ pc = "test_box"
    /\ pc' = "idle"
    /\ func' = "none"
    /\ cmds' = {} /\ last_run' = None
    /\ UNCHANGED <<current_project, status, msgboxes, ret, direction, ran, orchVars,
                   detectVars, dlgVars, xferVars, gitVars>>
    /\ UNCHANGED projVars
    /\ UNCHANGED last_left_file

(* --------------------------- SSHSetupDialog ---------------------------- *)

\* A public-key file under ~/.ssh: missing, not readable, empty, or holding
\* a key.
KeyFiles == {"missing", "unreadable", "empty", "key"}

\* _load_ssh_info over id_ed25519.pub and id_rsa.pub: the label and the text
\* it leaves.  The first file that can be read ends the search, also when
\* it is empty; an empty key counts as no key.
load_ssh_info(ed25519, rsa) ==
    LET found == IF ed25519 \in {"empty", "key"} THEN "id_ed25519.pub"
                 ELSE IF rsa \in {"empty", "key"} THEN "id_rsa.pub"
                 ELSE ""
        pub_key == IF found = "id_ed25519.pub" /\ ed25519 = "key" THEN "ssh-ed25519 AAAA"
                   ELSE IF found = "id_rsa.pub" /\ rsa = "key" THEN "ssh-rsa AAAA"
                   ELSE ""
    IN  IF pub_key # ""
        THEN [label |-> "Found: " \o found, text |-> pub_key]
        ELSE [label |-> "No SSH key found. Click 'Generate New Key' to create one.",
              text |-> "(No key found)"]

\* The "SSH Setup" button: SSHSetupDialog.__init__, which takes the grab and
\* returns to the main loop with the dialog open: until the dialog is closed
\* the main window's buttons get no event.
ssh_setup ==
    /\ pc = "idle"
    /\ ~ssh_open
    /\ ssh_open' = TRUE
    /\ ssh_box' = ""
    /\ \E ed25519 \in KeyFiles, rsa \in KeyFiles :
          /\ key_status_label' = load_ssh_info(ed25519, rsa).label
          /\ key_text' = load_ssh_info(ed25519, rsa).text
    /\ remote_host_var' = "user@192.168.1.xxx"
    /\ msgboxes' = {}
    /\ FreshRecord
    /\ UNCHANGED <<current_project, status, pc, frameVars>>
    /\ UNCHANGED <<storeVars, project_var, project_values, buttons_enabled, pdlgVars,
                   raised>>

\* What the user may leave in the host entry and in the key text.
RemoteHostInputs == {"", " ", "u@mac2"}

KeyTextInputs == {"", "ssh-ed25519 AAAA"}

\* The user edits the host entry or the key text of the dialog.
ssh_type ==
    /\ ssh_open
    /\ ssh_box = ""
    /\ \/ \E v \in RemoteHostInputs : remote_host_var' = v /\ UNCHANGED key_text
       \/ \E v \in KeyTextInputs : key_text' = v /\ UNCHANGED remote_host_var
    /\ UNCHANGED <<current_project, status, msgboxes, pc, ret, direction, func, ran,
                   orchVars, detectVars, dlgVars, xferVars, gitVars, cmdVars>>
    /\ UNCHANGED <<storeVars, project_var, project_values, buttons_enabled, pdlgVars,
                   raised, ssh_open, ssh_box, key_status_label>>
    /\ UNCHANGED last_left_file

\* `key and key != "(No key found)"` of the stripped key text.
has_key(text) == strip(text) # "" /\ strip(text) # "(No key found)"

\* SSHSetupDialog._copy_key.  The clipboard itself is not part of the state.
ssh_copy_key ==
    /\ ssh_open
    /\ ssh_box = ""
    /\ msgboxes' = IF has_key(key_text)
                   THEN {showinfo(<<"Public key copied to clipboard!">>)}
                   ELSE {showerror(<<"No key to copy. Generate one first.">>)}
    /\ ran' = {}
    /\ UNCHANGED <<current_project, status, pc, ret, direction, func, orchVars,
                   detectVars, dlgVars, xferVars, gitVars, cmdVars>>
    /\ UNCHANGED projVars
    /\ UNCHANGED last_left_file

\* subprocess.run(..., capture_output=True, text=True) that returned: the
\* return code and the two captured texts, each as text.split('\n') (a text
\* that ends with a line end has "" as its last piece; the empty text is
\* <<"">>).
CompletedProcess(rc, stdout, stderr) ==
    [kind |-> "exit", returncode |-> rc, stdout |-> stdout, stderr |-> stderr]

\* Outcomes of ssh-keygen, which is run with no timeout: the key is made;
\* the failure is printed on stderr, with a line end (as ssh-keygen does,
\* after its first line on stdout) or without one; it is printed on stdout
\* and stderr is empty; subprocess.run raises.
KeygenExecs ==
    {CompletedProcess(0, <<"Generating public/private ed25519 key pair.",
                           "Your identification has been saved", "">>, <<"">>),
     CompletedProcess(1, <<"Generating public/private ed25519 key pair.", "">>,
                         <<"Saving key failed: Permission denied", "">>),
     CompletedProcess(1, <<"">>, <<"Saving key failed: Permission denied">>),
     CompletedProcess(1, <<"Saving key failed: Permission denied", "">>, <<"">>),
     Excepted("[Errno 2] No such file or directory: 'ssh-keygen'")}

\* f"Failed to generate key:\n{result.stderr}" and f"Failed to generate
\* key:\n{e}": the lines of the error box.  stdout is not shown and stderr
\* is not stripped.
keygen_error(e) ==
    <<"Failed to generate key:">> \o (IF e.kind = "exit" THEN e.stderr ELSE e.out)

\* SSHSetupDialog._generate_key up to its last message box: the
\* confirmation, the test for an existing id_ed25519, ssh-keygen.  In the
\* boxes "Key Exists" and "Success" the handler waits with the dialog as it
\* was; the key is loaded again after the box.
ssh_generate_key ==
    /\ ssh_open
    /\ ssh_box = ""
    /\ \E yes \in BOOLEAN :
          IF ~yes
          THEN /\ msgboxes' = {askyesno("Generate Key", FALSE)}
               /\ ran' = {}
               /\ ssh_box' = ""
          ELSE \/ /\ msgboxes' = {askyesno("Generate Key", TRUE),
                                   showinfo(<<"SSH key already exists at /home/u/.ssh/id_ed25519",
                                              "", "Reload to view it.">>)}
                  /\ ran' = {}
                  /\ ssh_box' = "Key Exists"
               \/ \E e \in KeygenExecs :
                     /\ ran' = {0}
                     /\ IF e.kind = "exit" /\ e.returncode = 0
                        THEN /\ msgboxes' = {askyesno("Generate Key", TRUE),
                                             showinfo(<<"SSH key generated successfully!">>)}
                             /\ ssh_box' = "Success"
                        ELSE /\ msgboxes' = {askyesno("Generate Key", TRUE),
                                             showerror(keygen_error(e))}
                             /\ ssh_box' = ""
    /\ UNCHANGED <<current_project, status, pc, ret, direction, func, orchVars,
                   detectVars, dlgVars, xferVars, gitVars, cmdVars>>
    /\ UNCHANGED <<storeVars, project_var, project_values, buttons_enabled, pdlgVars,
                   raised, ssh_open, key_status_label, key_text, remote_host_var>>
    /\ UNCHANGED last_left_file

\* The box is dismissed and _generate_key calls _load_ssh_info, which reads
\* the key files as they are by then.
ssh_reload ==
    /\ ssh_open
    /\ ssh_box # ""
    /\ ssh_box' = ""
    /\ \E ed25519 \in KeyFiles, rsa \in KeyFiles :
          /\ key_status_label' = load_ssh_info(ed25519, rsa).label
          /\ key_text' = load_ssh_info(ed25519, rsa).text
    /\ UNCHANGED <<current_project, status, msgboxes, pc, ret, direction, func, ran,
                   orchVars, detectVars, dlgVars, xferVars, gitVars, cmdVars>>
    /\ UNCHANGED <<storeVars, project_var, project_values, buttons_enabled, pdlgVars,
                   raised, ssh_open, remote_host_var>>
    /\ UNCHANGED last_left_file

\* SSHSetupDialog._auto_copy_key: the two tests, then osascript, whose exit
\* code is not looked at; only an exception of subprocess.run is a failure.
ssh_auto_copy_key ==
    /\ ssh_open
    /\ ssh_box = ""
    /\ LET remote == strip(remote_host_var)
       IN  IF remote = ""
           THEN /\ msgboxes' = {showerror(<<"Please enter the remote host (e.g., user@192.168.1.100)">>)}
                /\ ran' = {}
           ELSE IF ~has_key(key_text)
           THEN /\ msgboxes' = {showerror(<<"No SSH key found. Generate one first.">>)}
                /\ ran' = {}
           ELSE \E e \in {Exited(0, << >>), Exited(1, << >>),
                           Excepted("[Errno 2] No such file or directory: 'osascript'")} :
                   /\ ran' = {0}
                   /\ msgboxes' =
                         IF e.kind = "exit"
                         THEN {showinfo(<<"A Terminal window has opened to copy your key to "
                                            \o remote \o ".", "",
                                          "Enter your password when prompted.", "",
                                          "After it succeeds, you can close the Terminal window.">>)}
                         ELSE {showerror(<<"Failed to open Terminal:">> \o e.out)}
    /\ UNCHANGED <<current_project, status, pc, ret, direction, func, orchVars,
                   detectVars, dlgVars, xferVars, gitVars, cmdVars>>
    /\ UNCHANGED projVars
    /\ UNCHANGED last_left_file

\* The dialog's Close button (command=self.destroy) or the window's close
\* button: the dialog and its widgets are gone and the grab is released.
\* The handler shows no box and runs no command.
ssh_close ==
    /\ ssh_open
    /\ ssh_box = ""
    /\ ssh_open' = FALSE
    /\ ssh_box' = ""
    /\ key_status_label' = "" /\ key_text' = "" /\ remote_host_var' = ""
    /\ msgboxes' = {}
    /\ ran' = {}
    /\ UNCHANGED <<current_project, status, pc, ret, direction, func,
                   orchVars, detectVars, dlgVars, xferVars, gitVars, cmdVars>>
    /\ UNCHANGED <<storeVars, project_var, project_values, buttons_enabled, pdlgVars,
                   raised>>
    /\ UNCHANGED last_left_file

(* ------------------------- project management -------------------------- *)

\* What the project handlers do not touch: the state of the operations.
opVars ==
    <<ret, direction, func, ran, orchVars, detectVars, dlgVars, xferVars, gitVars,
      cmdVars, sshVars>>

\* The program before SyncApp.__init__ has run, over any store on disk.
ConfigInit ==
    /\ config_file \in StoreContents
    /\ config_writable \in BOOLEAN
    /\ config_file.kind = "unreadable" => ~config_writable
    /\ ~config_writable => config_file \in ReadOnlyStores
    /\ projects = PyList(<< >>)
    /\ current_project = None
    /\ project_var = ""
    /\ project_values = << >>
    /\ buttons_enabled = FALSE
    /\ pdlg_open = FALSE /\ pdlg_fields = Prefill(None) /\ pdlg_result = None
    /\ raised = None
    /\ NoSshDialog
    /\ status = "Ready"
    /\ msgboxes = {}
    /\ pc = "startup"
    /\ ret = None
    /\ mode = "none" /\ step = 0 /\ started = << >> /\ step_results = << >>
    /\ ran = {}
    /\ temp_file = None
    /\ last_left_file = FALSE
    /\ FrameInit

\* SyncApp.__init__: self.config = Config(), which loads the store.  An
\* exception leaving load leaves main().
Config_init ==
    /\ pc = "startup"
    /\ LET r == load(config_file)
       IN  /\ projects' = r.projects
           /\ raised' = r.raised
           /\ pc' = IF r.raised = None THEN "loaded" ELSE "crashed"
    /\ UNCHANGED <<current_project, status, msgboxes, config_file, config_writable,
                   project_var, project_values, buttons_enabled, pdlgVars, opVars>>
    /\ UNCHANGED last_left_file

\* SyncApp.__init__ after Config(): _create_widgets disables the buttons and
\* _update_project_list selects the first project, if there is one.
app_init ==
    /\ pc = "loaded"
    /\ IF projects.type # "list"
       THEN /\ raised' = Raised("Config.get_project_names", "TypeError")
            /\ pc' = "crashed"
            /\ UNCHANGED <<current_project, project_var, project_values, buttons_enabled>>
       ELSE LET names == get_project_names(projects.items)
            IN  /\ pc' = "idle"
                /\ project_values' = names
                /\ UNCHANGED raised
                /\ IF names # << >> /\ project_var = ""
                   THEN /\ project_var' = names[1]
                        /\ current_project' = on_project_selected(projects.items, names[1])
                        /\ buttons_enabled' = TRUE
                   ELSE /\ buttons_enabled' = FALSE
                        /\ UNCHANGED <<current_project, project_var>>
    /\ UNCHANGED <<status, msgboxes, storeVars, pdlgVars, opVars>>
    /\ UNCHANGED last_left_file

\* The combobox: the user picks one of its values (_on_project_selected).
select_project ==
    /\ pc = "idle"
    /\ ~ssh_open
    /\ \E i \in 1..Len(project_values) :
          LET name == project_values[i]
          IN  /\ project_var' = name
              /\ current_project' = on_project_selected(projects.items, name)
              /\ buttons_enabled' = (on_project_selected(projects.items, name) # None)
    /\ msgboxes' = {}
    /\ FreshRecord
    /\ UNCHANGED <<status, pc, storeVars, project_values, pdlgVars, raised, frameVars,
                   sshVars>>

\* The "+ Add Project" button: _add_project up to the dialog.
add_project ==
    /\ pc = "idle"
    /\ ~ssh_open
    /\ Len(projects.items) < MaxProjects
    /\ msgboxes' = {}
    /\ pdlg_open' = TRUE
    /\ pdlg_fields' = Prefill(None)
    /\ pdlg_result' = None
    /\ pc' = "add_dialog"
    /\ FreshRecord
    /\ UNCHANGED <<current_project, status, storeVars, project_var, project_values,
                   buttons_enabled, raised, frameVars, sshVars>>

\* Mutant of index_of: the last project of the name.
index_of_last(ps, name) ==
    LET idx == {i \in 1..Len(ps) : ps[i].name = name}
    IN  IF idx = {} THEN None ELSE Some(CHOOSE i \in idx : \A j \in idx : i >= j)

\* The index of the first project of a name, or None.
index_of(ps, name) ==
    LET idx == {i \in 1..Len(ps) : ps[i].name = name}
    IN  IF idx = {} THEN None ELSE Some(CHOOSE i \in idx : \A j \in idx : i <= j)

\* The "Edit Project" button: _edit_project up to the dialog.
edit_project ==
    /\ pc = "idle"
    /\ ~ssh_open
    /\ IF current_project = None
       THEN /\ msgboxes' = {showerror(<<"No project selected">>)}
            /\ UNCHANGED <<pc, pdlgVars>>
       ELSE IF index_of(projects.items, current_project[1].name) = None
       THEN /\ msgboxes' = {}
            /\ UNCHANGED <<pc, pdlgVars>>
       ELSE /\ msgboxes' = {}
            /\ pdlg_open' = TRUE
            /\ pdlg_fields' = Prefill(current_project)
            /\ pdlg_result' = None
            /\ pc' = "edit_dialog"
    /\ FreshRecord
    /\ UNCHANGED <<current_project, status, storeVars, project_var, project_values,
                   buttons_enabled, raised, frameVars, sshVars>>

\* The user edits one entry field of the open ProjectDialog.
project_type ==
    /\ pdlg_open
    /\ \/ \E v \in NameInputs : pdlg_fields' = [pdlg_fields EXCEPT !.name = v]
       \/ \E v \in LocalInputs : pdlg_fields' = [pdlg_fields EXCEPT !.local = v]
       \/ \E v \in HostInputs : pdlg_fields' = [pdlg_fields EXCEPT !.host = v]
       \/ \E v \in RemoteInputs : pdlg_fields' = [pdlg_fields EXCEPT !.remote = v]
       \/ \E v \in BranchInputs : pdlg_fields' = [pdlg_fields EXCEPT !.branch = v]
    /\ UNCHANGED <<current_project, status, msgboxes, pc, storeVars, project_var,
                   project_values, buttons_enabled, pdlg_open, pdlg_result, raised, opVars>>
    /\ UNCHANGED last_left_file

\* Mutant of required_filled: one filled field is enough.
required_filled_any(name, local, host, remote) ==
    name # "" \/ local # "" \/ host # "" \/ remote # ""

\* all([name, local, host, remote])
required_filled(name, local, host, remote) ==
    name # "" /\ local # "" /\ host # "" /\ remote # ""

\* ProjectDialog._save (the Save button).
project_save ==
    /\ pdlg_open
    /\ LET name == Join(strip(pdlg_fields.name))
           local == Join(strip(pdlg_fields.local))
           host == Join(strip(pdlg_fields.host))
           remote == Join(strip(pdlg_fields.remote))
           typed_branch == Join(strip(pdlg_fields.branch))
           branch == IF typed_branch = "" THEN "main" ELSE typed_branch
       IN  IF ~required_filled(name, local, host, remote)
           THEN /\ msgboxes' = msgboxes \cup
                     {showerror(<<"All fields except branch are required">>)}
                /\ UNCHANGED <<pdlg_open, pdlg_result>>
           ELSE IF ~isdir(local)
           THEN /\ msgboxes' = msgboxes \cup
                     {showerror(<<"Local path does not exist: " \o local>>)}
                /\ UNCHANGED <<pdlg_open, pdlg_result>>
           ELSE /\ pdlg_result' =
                     Some([name |-> name, local_path |-> local, remote_host |-> host,
                           remote_path |-> remote, git_branch |-> branch])
                /\ pdlg_open' = FALSE
                /\ UNCHANGED msgboxes
    /\ UNCHANGED <<current_project, status, pc, storeVars, project_var, project_values,
                   buttons_enabled, pdlg_fields, raised, opVars>>
    /\ UNCHANGED last_left_file

\* ProjectDialog's Cancel button (command=self.destroy) or the window's
\* close button.
project_cancel ==
    /\ pdlg_open
    /\ pdlg_open' = FALSE
    /\ UNCHANGED <<current_project, status, msgboxes, pc, storeVars, project_var,
                   project_values, buttons_enabled, pdlg_fields, pdlg_result, raised,
                   opVars>>
    /\ UNCHANGED last_left_file

\* After the list changed and was saved, the handler gives the combobox the
\* new names (_update_project_list), puts the name in it and calls
\* _on_project_selected.
Reselect(ps, name) ==
    /\ project_values' = get_project_names(ps)
    /\ project_var' = name
    /\ current_project' = on_project_selected(ps, name)
    /\ buttons_enabled' = (on_project_selected(ps, name) # None)

\* What a handler leaves as it was when an exception leaves it: Tk reports
\* the exception of a callback and the main loop goes on.
HandlerAborted ==
    UNCHANGED <<project_values, project_var, current_project, buttons_enabled, status>>

\* wait_window returns in _add_project: a result is appended and saved.
add_returned ==
    /\ pc = "add_dialog"
    /\ ~pdlg_open
    /\ IF pdlg_result # None
       THEN LET ps == Append(projects.items, pdlg_result[1])
                saved == save(config_file, PyList(ps), config_writable)
            IN     /\ projects' = PyList(ps)
                   /\ config_file' = saved.file
                   /\ IF saved.raised = None
                      THEN /\ Reselect(ps, pdlg_result[1].name)
                           /\ status' = "Project added"
                      ELSE HandlerAborted
       ELSE UNCHANGED <<config_file, projects, project_values, project_var,
                        current_project, buttons_enabled, status>>
    /\ pc' = "idle"
    /\ pdlg_fields' = Prefill(None)
    /\ pdlg_result' = None
    /\ UNCHANGED <<config_writable, msgboxes, pdlg_open, raised, opVars>>
    /\ UNCHANGED last_left_file

\* wait_window returns in _edit_project: a result replaces the project at
\* the index found before the dialog, and the list is saved.
edit_returned ==
    /\ pc = "edit_dialog"
    /\ ~pdlg_open
    /\ IF pdlg_result # None
       THEN LET index == index_of(projects.items, current_project[1].name)[1]
                ps == [projects.items EXCEPT ![index] = pdlg_result[1]]
                saved == save(config_file, PyList(ps), config_writable)
            IN     /\ projects' = PyList(ps)
                   /\ config_file' = saved.file
                   /\ IF saved.raised = None
                      THEN /\ Reselect(ps, pdlg_result[1].name)
                           /\ status' = "Project updated"
                      ELSE HandlerAborted
       ELSE UNCHANGED <<config_file, projects, project_values, project_var,
                        current_project, buttons_enabled, status>>
    /\ pc' = "idle"
    /\ pdlg_fields' = Prefill(None)
    /\ pdlg_result' = None
    /\ UNCHANGED <<config_writable, msgboxes, pdlg_open, raised, opVars>>
    /\ UNCHANGED last_left_file

\* The list without its i-th element.
RemoveAt(ps, i) == SubSeq(ps, 1, i - 1) \o SubSeq(ps, i + 1, Len(ps))

\* The "Remove" button: _remove_project, with the answer to its askyesno.
\* Nothing is saved when no project has the current project's name.
remove_project ==
    /\ pc = "idle"
    /\ ~ssh_open
    /\ IF current_project = None
       THEN /\ msgboxes' = {showerror(<<"No project selected">>)}
            /\ UNCHANGED <<config_file, projects, project_values, project_var,
                           current_project, buttons_enabled, status>>
       ELSE \E yes \in BOOLEAN :
               /\ msgboxes' = {askyesno("Confirm", yes)}
               /\ IF ~yes
                  THEN UNCHANGED <<config_file, projects, project_values, project_var,
                                   current_project, buttons_enabled, status>>
                  ELSE LET index == index_of(projects.items, current_project[1].name)
                           ps == IF index = None THEN projects.items
                                 ELSE RemoveAt(projects.items, index[1])
                           saved == IF index = None
                                    THEN [file |-> config_file, raised |-> None]
                                    ELSE save(config_file, PyList(ps), config_writable)
                           names == get_project_names(ps)
                       IN  /\ projects' = PyList(ps)
                           /\ config_file' = saved.file
                           /\ IF saved.raised = None
                              THEN /\ Reselect(ps, IF names # << >> THEN names[1] ELSE "")
                                   /\ status' = "Project removed"
                              ELSE HandlerAborted
    /\ FreshRecord
    /\ UNCHANGED <<config_writable, pc, pdlgVars, raised, frameVars, sshVars>>

\* The main loop: every handler of the running application.
Next ==
    \/ test_connection
    \/ test_ssh
    \/ test_return
    \/ ssh_setup
    \/ ssh_type
    \/ ssh_copy_key
    \/ ssh_generate_key
    \/ ssh_reload
    \/ ssh_auto_copy_key
    \/ ssh_close
    \/ sync_to_remote
    \/ sync_from_remote
    \/ detect_list_local
    \/ detect_list_remote
    \/ detect_examine
    \/ detect_return
    \/ resolve
    \/ toggle_apply_all
    \/ cancel
    \/ close_window
    \/ dialog_returned
    \/ list_files
    \/ rsync
    \/ sync_failed_return
    \/ sync_raised
    \/ git_push
    \/ git_pull
    \/ push_git_status
    \/ commit
    \/ commit_cancel
    \/ commit_returned
    \/ commit_cmd
    \/ push_cmd
    \/ pull_git_status
    \/ pull_confirm
    \/ pull_cmd
    \/ full_sync
    \/ full_sync_next
    \/ handler_return
    \/ select_project
    \/ add_project
    \/ edit_project
    \/ project_type
    \/ project_save
    \/ project_cancel
    \/ add_returned
    \/ edit_returned
    \/ remove_project

Spec == Init /\ [][Next]_vars

\* The start of the program over any store on disk, and the project
\* handlers.
ConfigNext ==
    \/ Config_init
    \/ app_init
    \/ select_project
    \/ add_project
    \/ edit_project
    \/ project_type
    \/ project_save
    \/ project_cancel
    \/ add_returned
    \/ edit_returned
    \/ remove_project

ConfigSpec == ConfigInit /\ [][ConfigNext]_vars

(* ------------------------------- claims -------------------------------- *)

\* C1: in a full sync, once a step has returned non-success (failed or
\* cancelled), no later step is called and no later step runs an external
\* command; after a failed git-push, git-pull and sync-from-remote are
\* called zero times.
C1_HaltsAtFirstFailure ==
    /\ \A i \in 1..Len(step_results) :
          ~step_results[i] =>
             /\ Len(started) = i
             /\ \A j \in ran : j <= i
             /\ pc = "idle"
    /\ (mode = "full" /\ pc = "returned" /\ ret = Some(FALSE)) =>
          /\ Len(started) = step
          /\ \A j \in ran : j <= step

\* C1 witness: git-push failed after a successful sync-to-remote, and the
\* full sync has stopped there.
C1_Witness ==
    /\ pc = "idle"
    /\ step_results = <<TRUE, FALSE>>
    /\ started = <<"sync_to_remote", "git_push">>
    /\ ran = {1, 2}
    /\ status = "Full sync stopped at: Pushing to git"

\* C2: the steps a full sync calls are a prefix of sync-to-remote, git-push,
\* git-pull, sync-from-remote, each called at most once and only after the
\* previous one returned (with success); the run ends with "Full sync
\* complete!" exactly when all four steps returned success.  While the run
\* is on, the last step called has no result yet; after the run every step
\* called has its result, but for a sync step that an exception left.
C2_OrderedPrefix ==
    /\ [](/\ Len(started) <= Len(Steps)
          /\ \A i \in 1..Len(started) : started[i] = Steps[i].func
          /\ IF mode = "full"
             THEN Len(started) = Len(step_results) + 1 /\ step = Len(started)
             ELSE \/ Len(started) = Len(step_results)
                  \/ /\ Len(started) = Len(step_results) + 1
                     /\ started[Len(started)] \in {"sync_to_remote", "sync_from_remote"}
                     /\ pc = "idle"
          /\ \A i \in 1..Len(step_results) : i < Len(started) => step_results[i]
          /\ mode = "full" => status # "Full sync complete!"
          /\ (status = "Full sync complete!" /\ started # << >>) =>
                (Len(step_results) = 4 /\ \A i \in 1..4 : step_results[i]))
    /\ [][(mode = "full" /\ mode' = "none") =>
            /\ pc' = "idle"
            /\ (status' = "Full sync complete!")
                  <=> (Len(step_results') = 4 /\ \A i \in 1..4 : step_results'[i])]_vars

\* C2 witness: a full sync whose four steps all returned success.
C2_Witness ==
    /\ pc = "idle"
    /\ status = "Full sync complete!"
    /\ step_results = <<TRUE, TRUE, TRUE, TRUE>>
    /\ started = <<"sync_to_remote", "git_push", "git_pull", "sync_from_remote">>

\* C3: when the user cancels the ConflictDialog (Cancel All) at any presented
\* conflict, the enclosing sync returns False with the status "Sync
\* cancelled", never reaches the listing or the transfer, and derives no
\* exclusion from the decisions made before the cancellation.
C3_CancelAborts ==
    cancelled =>
       /\ pc \in {"dialog", "returned"}
       /\ transfers = << >>
       /\ temp_file = None
       /\ listing = None
       /\ exclude_files = {}
       /\ pc = "returned" => (ret = Some(FALSE) /\ status = "Sync cancelled")

\* C3 witness: a sync that returned after a cancellation at the third
\* conflict, two decisions having been made.
C3_Witness ==
    /\ pc = "returned"
    /\ cancelled
    /\ current_index = 2
    /\ Cardinality(DOMAIN results) = 2
    /\ direction = "from_remote"

\* C4: a decision made at index k with "apply to all remaining" set closes
\* the dialog at once, not cancelled, with exactly n entries in results:
\* entries k..n-1 equal the value chosen at k, entries 0..k-1 keep the values
\* chosen individually.
C4_ApplyToAllRemaining ==
    [][(resolve /\ apply_all_var) =>
          LET n == Len(conflicts)
              k == current_index
              choice == results'[conflicts[k + 1].file]
          IN  /\ ~dlg_open'
              /\ ~cancelled'
              /\ choice \in Choices
              /\ DOMAIN results' = {conflicts[i].file : i \in 1..n}
              /\ Cardinality(DOMAIN results') = n
              /\ \A i \in (k + 1)..n : results'[conflicts[i].file] = choice
              /\ \A i \in 1..k :
                    /\ conflicts[i].file \in DOMAIN results
                    /\ results'[conflicts[i].file] = results[conflicts[i].file]]_vars

\* C4 witness: three conflicts, the first decided alone, the second decided
\* otherwise with "apply to all remaining" set.
C4_Witness ==
    /\ pc = "dialog"
    /\ ~dlg_open
    /\ ~cancelled
    /\ apply_all_var
    /\ Len(conflicts) = 3
    /\ current_index = 1
    /\ DOMAIN results = {conflicts[i].file : i \in 1..3}
    /\ results[conflicts[1].file] = "local"
    /\ results[conflicts[2].file] = "skip"
    /\ results[conflicts[3].file] = "skip"

\* C5: whenever the ConflictDialog has closed with cancelled = False, results
\* holds a decision in {local, remote, skip} for every file of the conflict
\* list.
C5_ResolutionComplete ==
    (pc = "dialog" /\ ~dlg_open /\ ~cancelled) =>
       \A i \in 1..Len(conflicts) :
          /\ conflicts[i].file \in DOMAIN results
          /\ results[conflicts[i].file] \in Choices

\* The files a sync may not transfer given the decisions made: those decided
\* for the other side or skipped.
Withheld(other) == {f \in DOMAIN results : results[f] \in {other, "skip"}}

\* C6: a sync-to-remote that reaches the transfer hands rsync exactly the
\* local untracked-file list minus the files decided 'remote' or 'skip'
\* (files decided 'local' or not decided stay in), from the local root to the
\* remote root.
C6_ToRemoteTransfer ==
    (direction = "to_remote" /\ (pc = "rsync" \/ transfers # << >>)) =>
       LET sent == SelectSeq(listing[1].files, LAMBDA f : f \notin Withheld("remote"))
       IN  /\ listing # None
           /\ listing[1].local
           /\ temp_file # None => temp_file = Some(sent)
           /\ \A i \in 1..Len(transfers) :
                 /\ transfers[i].files_from = sent
                 /\ Range(transfers[i].files_from) \subseteq Range(listing[1].files)
                 /\ transfers[i].src = "/home/u/proj/"
                 /\ transfers[i].dst = "mac2:/Users/u/proj/"

\* C6 witness: decisions {a.env: remote, b.log: skip}, local list
\* {a.env, b.log, c.db}: exactly c.db was transferred.
C6_Witness ==
    /\ direction = "to_remote"
    /\ pc = "returned"
    /\ DOMAIN results = {"a.env", "b.log"}
    /\ results["a.env"] = "remote"
    /\ results["b.log"] = "skip"
    /\ listing = Some([local |-> TRUE, files |-> <<"a.env", "b.log", "c.db">>])
    /\ Len(transfers) = 1
    /\ transfers[1].files_from = <<"c.db">>

\* C7: a sync-from-remote that reaches the transfer hands rsync exactly the
\* remote untracked-file list minus the files decided 'local' or 'skip'
\* (files decided 'remote' or not decided stay in), from the remote root to
\* the local root.
C7_FromRemoteTransfer ==
    (direction = "from_remote" /\ (pc = "rsync" \/ transfers # << >>)) =>
       LET sent == SelectSeq(listing[1].files, LAMBDA f : f \notin Withheld("local"))
       IN  /\ listing # None
           /\ ~listing[1].local
           /\ temp_file # None => temp_file = Some(sent)
           /\ \A i \in 1..Len(transfers) :
                 /\ transfers[i].files_from = sent
                 /\ transfers[i].src = "mac2:/Users/u/proj/"
                 /\ transfers[i].dst = "/home/u/proj/"

\* C7 witness: decisions {a.env: remote, b.log: local, c.db: skip} and the
\* remote list {a.env, b.log, c.db}: exactly a.env was transferred.
C7_Witness ==
    /\ direction = "from_remote"
    /\ pc = "returned"
    /\ DOMAIN results = {"a.env", "b.log", "c.db"}
    /\ results["a.env"] = "remote"
    /\ results["b.log"] = "local"
    /\ results["c.db"] = "skip"
    /\ listing = Some([local |-> FALSE, files |-> <<"a.env", "b.log", "c.db">>])
    /\ Len(transfers) = 1
    /\ transfers[1].files_from = <<"a.env">>

\* C8: when nothing is left of the file list after the excluded files are
\* removed, the sync returns True with the status "No untracked files to
\* sync", writes no file list and does not run rsync.
C8_NothingToSync ==
    /\ (listing # None /\ files = << >>) =>
          /\ pc = "returned"
          /\ ret = Some(TRUE)
          /\ status = "No untracked files to sync"
          /\ transfers = << >>
          /\ temp_file = None
    /\ pc = "rsync" => files # << >>
    /\ \A i \in 1..Len(transfers) : transfers[i].files_from # << >>

\* C8 witness: the listing was not empty, but every listed file was
\* excluded by a decision.
C8_Witness ==
    /\ pc = "returned"
    /\ listing # None
    /\ Len(listing[1].files) = 2
    /\ files = << >>
    /\ Cardinality(exclude_files) >= 2
    /\ ret = Some(TRUE)

\* The file the detection loop went through last was resolved on both sides.
CurResolved ==
    /\ cur[1].local_stat.exists
    /\ cur[1].remote_exec.kind = "exit"
    /\ cur[1].remote_exec.returncode = 0
    /\ Len(cur[1].remote_exec.out) = 1
    /\ cur[1].remote_exec.out[1] \in Range(DigitStrings)

\* C9: every conflict of the detected list is a file of both untracked-file
\* sets whose two times resolved and differ as formatted to whole seconds;
\* a file whose two formatted times are equal is not listed.
C9_ConflictsSound ==
    /\ \A i \in 1..Len(conflicts) :
          /\ conflicts[i].local_time # None
          /\ conflicts[i].remote_time # None
          /\ conflicts[i].local_time # conflicts[i].remote_time
          /\ pc = "detect_loop" =>
                (conflicts[i].file \in local_files /\ conflicts[i].file \in remote_files)
    /\ cur # None =>
          (cur[1].file \in Range(ConflictFiles) =>
              /\ CurResolved
              /\ cur[1].local_stat.mtime \div TicksPerSecond # int(cur[1].remote_exec.out)
              /\ conflicts[Len(conflicts)] =
                    [file |-> cur[1].file,
                     local_time |-> Some(cur[1].local_stat.mtime \div TicksPerSecond),
                     remote_time |-> Some(int(cur[1].remote_exec.out))])

\* C9 witness: detection is over two common files, one with differing times
\* (listed) and then one whose times fall in the same second (not listed).
C9_Witness ==
    /\ pc = "detect_loop"
    /\ examined = common_files
    /\ Cardinality(common_files) = 2
    /\ Len(conflicts) = 1
    /\ cur # None
    /\ CurResolved
    /\ cur[1].local_stat.mtime = 1
    /\ cur[1].remote_exec.out = <<"0">>
    /\ cur[1].file \notin Range(ConflictFiles)

\* C10: a candidate whose local or remote time cannot be resolved is left
\* out of the conflict list and nothing else happens: no error is shown, the
\* conflicts found before stay, the loop goes through every other candidate
\* (listing those that do conflict) and the sync goes on to the dialog or to
\* the listing.
C10_SoftFailure ==
    /\ [](cur # None =>
            /\ pc = "detect_loop"
            /\ ret = None
            /\ ~CurResolved => cur[1].file \notin Range(ConflictFiles))
    /\ [][detect_examine =>
            /\ UNCHANGED <<msgboxes, status, pc, ret>>
            /\ examined' = examined \cup {cur'[1].file}
            /\ cur'[1].file \in common_files \ examined
            /\ SubSeq(conflicts', 1, Len(conflicts)) = conflicts
            /\ ~(cur'[1].local_stat.exists /\ get_file_mtime_remote(cur'[1].remote_exec) # None)
                  => conflicts' = conflicts]_vars
    /\ [][(pc = "detect_loop" /\ pc' # "detect_loop") =>
            /\ examined = common_files
            /\ pc' \in {"dialog", "list_files"}
            /\ conflicts' = conflicts
            /\ pc' = "dialog" <=> conflicts # << >>]_vars

\* C10 witness: three candidates; the first conflicts, the second has no
\* resolvable remote time, the third conflicts; both conflicts are listed.
C10_Witness ==
    /\ pc = "detect_loop"
    /\ examined = common_files
    /\ Cardinality(common_files) = 3
    /\ Len(conflicts) = 2
    /\ \E i \in 1..2 : cur[1].file = conflicts[i].file
    /\ \E f \in common_files : f \notin Range(ConflictFiles)

\* The last step ran a command that failed (non-zero exit or timeout).
FailedRun == last_run # None /\ ~last_run[1].result.success

\* The error box, if any, that shows the output of the last command.
ShowsOutput(b) ==
    /\ b.kind = "error"
    /\ Len(b.text) >= 1
    /\ SubSeq(b.text, 2, Len(b.text)) = last_run[1].result.output

\* C11: when an external command of a sync, push or pull (a listing of the
\* untracked files, the dirtiness query, commit, push, pull, the transfer)
\* fails, the operation stops at that step with the command's raw output
\* shown in an error box and returns non-success.
C11_FailureStopsOperation ==
    (FailedRun /\ last_run[1].cmd \in
        {"ls_local", "ls_remote", "git_status", "git_commit", "git_push", "git_pull", "rsync"}) =>
       /\ pc = "returned"
       /\ ret = Some(FALSE)
       /\ \E b \in msgboxes : ShowsOutput(b)

\* C12: a sync invokes the transfer tool at most once; when the tool fails,
\* the sync shows "Sync failed" and the tool's raw output in an error box
\* after that single invocation, and from the box it returns non-success
\* and nothing else.
C12_TransferOnce ==
    /\ Len(transfers) <= 1
    /\ "rsync" \in cmds <=> Len(transfers) = 1
    /\ (FailedRun /\ last_run[1].cmd = "rsync") =>
          /\ pc = "sync_failed"
          /\ status = "Sync failed"
          /\ [kind |-> "error", text |-> <<"Sync failed:">> \o last_run[1].result.output]
                \in msgboxes
    /\ pc = "sync_failed" => (FailedRun /\ last_run[1].cmd = "rsync")
    /\ (pc = "returned" /\ "rsync" \in cmds /\ status = "Sync failed") =>
          ret = Some(FALSE)

\* C12 witness: rsync exited with 23 in its one invocation of a sync to the
\* remote.
C12_Witness ==
    /\ pc = "sync_failed"
    /\ func = "sync_to_remote"
    /\ FailedRun
    /\ last_run[1].exec = Exited(23, <<"rsync error: some files could not be transferred">>)
    /\ Len(transfers) = 1

\* C13: a push on a dirty tree for which the CommitDialog gave no message
\* never reaches the commit or the push command (only the dirtiness query
\* has run) and returns non-success with "Push cancelled".
C13_NoMessageNoPush ==
    (func = "git_push" /\ is_dirty /\ commit_result = None) =>
       /\ pc \in {"commit_dialog", "returned"}
       /\ cmds = {"git_status"}
       /\ pc = "returned" => (ret = Some(FALSE) /\ status = "Push cancelled")

\* C13 witness: the CommitDialog of a dirty tree was cancelled and the push
\* has returned.
C13_Witness ==
    /\ func = "git_push"
    /\ pc = "returned"
    /\ is_dirty
    /\ commit_result = None
    /\ mode = "single"

\* C14: on a dirty tree the push command runs only after the commit command
\* has run with the dialog's message; when the commit fails, the push has
\* returned non-success and the push command has not run.
C14_CommitBeforePush ==
    /\ (func = "git_push" /\ is_dirty /\ (pc = "push_cmd" \/ "git_push" \in cmds)) =>
          /\ "git_commit" \in cmds
          /\ commit_result # None
    /\ (func = "git_push" /\ FailedRun /\ last_run[1].cmd = "git_commit") =>
          /\ pc = "returned"
          /\ ret = Some(FALSE)
          /\ "git_push" \notin cmds

\* C14 witness: the commit of a dirty tree failed with a non-zero exit.
C14_Witness ==
    /\ func = "git_push"
    /\ is_dirty
    /\ commit_result = Some(<<"w", "i", "p">>)
    /\ FailedRun
    /\ last_run[1].cmd = "git_commit"
    /\ last_run[1].exec.kind = "exit"

\* C15: a pull on a dirty tree runs the pull command only after the user
\* answered yes to the confirmation; after a no, the pull has returned
\* non-success and the pull command has not run; on a clean tree the pull
\* command runs with no confirmation asked.
C15_PullConfirm ==
    func = "git_pull" =>
       /\ (pc = "pull_cmd" \/ "git_pull" \in cmds) =>
             IF is_dirty
             THEN askyesno("Warning", TRUE) \in msgboxes
             ELSE \A b \in msgboxes : b.kind # "askyesno"
       /\ askyesno("Warning", FALSE) \in msgboxes =>
             /\ is_dirty
             /\ pc = "returned"
             /\ ret = Some(FALSE)
             /\ cmds = {"git_status"}
       /\ pc = "pull_confirm" => (is_dirty /\ cmds = {"git_status"})

\* C15 witness: the user declined the confirmation of a pull on a dirty tree.
C15_Witness ==
    /\ func = "git_pull"
    /\ pc = "returned"
    /\ askyesno("Warning", FALSE) \in msgboxes
    /\ status = "Pull cancelled"

\* The error boxes shown so far.
ErrorBoxes == {b \in msgboxes : b.kind = "error"}

\* C16: a cancellation by the user (Cancel All in the conflict dialog, no
\* message from the commit dialog, a no to the pull confirmation) makes the
\* operation return non-success without showing an error box, and the
\* enclosing full sync stops without showing any box; a failure of the
\* transfer, the commit, the push or the pull shows an error box.
C16_CancelSilentFailureLoud ==
    /\ [][((dialog_returned /\ cancelled)
              \/ (commit_returned /\ commit_result = None)
              \/ (pull_confirm /\ pc' = "returned")) =>
            /\ pc' = "returned"
            /\ ret' = Some(FALSE)
            /\ ErrorBoxes' = ErrorBoxes]_vars
    /\ [][(full_sync_next /\ ret = Some(FALSE)) =>
            /\ pc' = "idle"
            /\ msgboxes' = msgboxes]_vars
    /\ [][(last_run' # None /\ ~last_run'[1].result.success
              /\ last_run'[1].cmd \in {"rsync", "git_commit", "git_push", "git_pull"}) =>
            \E b \in ErrorBoxes' :
               SubSeq(b.text, 2, Len(b.text)) = last_run'[1].result.output]_vars

\* C16 witness: a full sync stopped at the push, whose commit dialog was
\* cancelled, and no error box was shown.
C16_Witness ==
    /\ pc = "idle"
    /\ status = "Full sync stopped at: Pushing to git"
    /\ step_results = <<TRUE, FALSE>>
    /\ ran = {1, 2}
    /\ ErrorBoxes = {}

\* C17: a command that timed out is handed to its caller as
\* (False, 'Command timed out'), and every caller does with a failed command
\* the same thing whether it exited non-zero or timed out: a failed listing
\* is the empty list, a failed stat is no time, a failed dirtiness query is a
\* clean tree, a failed commit, push or pull ends the operation with
\* non-success, its failure status and an error box with the output, and a
\* failed transfer leads to the same through its error box.
HandledAsFailure ==
    LET c == last_run[1].cmd
        out == last_run[1].result.output
        failed(text) ==
            /\ pc = "returned"
            /\ ret = Some(FALSE)
            /\ status = text
            /\ showerror(<<text \o ":">> \o out) \in msgboxes
    IN  CASE c = "git_commit" -> failed("Commit failed")
          [] c = "git_push" -> failed("Push failed")
          [] c = "git_pull" -> failed("Pull failed")
          [] c = "rsync" ->
                /\ pc = "sync_failed"
                /\ ret = None
                /\ status = "Sync failed"
                /\ showerror(<<"Sync failed:">> \o out) \in msgboxes
          [] c = "ssh" ->
                /\ pc = "test_box"
                /\ status = "Connection failed"
                /\ ConnectionFailedBox(current_project[1].remote_host, out) \in msgboxes
          [] c = "git_status" ->
                /\ ~is_dirty
                /\ pc = IF func = "git_push" THEN "push_cmd" ELSE "pull_cmd"
          [] c = "stat_remote" -> cur[1].remote_time = None /\ pc = "detect_loop"
          [] c = "ls_local" /\ pc = "detect_remote" -> local_files = {}
          [] c = "ls_remote" /\ pc = "detect_loop" -> remote_files = {}
          [] OTHER ->
                /\ listing[1].files = << >>
                /\ files = << >>
                /\ pc = "returned"
                /\ ret = Some(TRUE)

C17_TimeoutIsFailure ==
    /\ (last_run # None /\ last_run[1].exec.kind = "timeout") =>
          last_run[1].result = [success |-> FALSE, output |-> <<"Command timed out">>]
    /\ FailedRun => HandledAsFailure
    /\ (pc = "returned" /\ "rsync" \in cmds /\ status = "Sync failed") =>
          ret = Some(FALSE)

\* C17 witness: the push command timed out.
C17_Witness ==
    /\ last_run # None
    /\ last_run[1].exec = TimedOut
    /\ last_run[1].cmd = "git_push"
    /\ pc = "returned"
    /\ showerror(<<"Push failed:", "Command timed out">>) \in msgboxes

\* The commands an operation may run.
CmdsOf(f) ==
    CASE f \in {"sync_to_remote", "sync_from_remote"} ->
            {"ls_local", "ls_remote", "stat_remote", "rsync"}
      [] f = "git_push" -> {"git_status", "git_commit", "git_push"}
      [] f = "git_pull" -> {"git_status", "git_pull"}
      [] f = "test_connection" -> {"ssh"}
      [] OTHER -> {}

\* C18: one operation at a time holds the control: a step runs at most one
\* command, which belongs to the one running operation; while a modal dialog
\* of an operation is open that operation waits in it and nothing else runs;
\* an operation is running exactly when the main loop is not idle.
C18_OneAtATime ==
    /\ dlg_open => (pc = "dialog" /\ func \in {"sync_to_remote", "sync_from_remote"})
    /\ commit_open => (pc = "commit_dialog" /\ func = "git_push")
    /\ pdlg_open => (pc \in {"add_dialog", "edit_dialog"} /\ func = "none")
    /\ ssh_open => (pc = "idle" /\ func = "none")
    /\ Cardinality({d \in {"conflict", "commit", "project", "ssh"} :
                       \/ d = "conflict" /\ dlg_open
                       \/ d = "commit" /\ commit_open
                       \/ d = "project" /\ pdlg_open
                       \/ d = "ssh" /\ ssh_open}) <= 1
    /\ cmds \subseteq CmdsOf(func)
    /\ last_run # None => (pc # "idle" /\ last_run[1].cmd \in cmds)
    /\ pc = "idle" => (func = "none" /\ mode = "none" /\ cmds = {})
    /\ mode = "full" => (step \in 1..Len(Steps) /\ func = Steps[step].func)

\* C18 witness: inside a full sync the commit dialog is open after the
\* sync to the remote ran its commands.
C18_Witness ==
    /\ commit_open
    /\ mode = "full"
    /\ step = 2
    /\ ran = {1, 2}
    /\ cmds = {"git_status"}

\* What the open ProjectDialog's fields hold, stripped.
Entered ==
    [name |-> Join(strip(pdlg_fields.name)), local |-> Join(strip(pdlg_fields.local)),
     host |-> Join(strip(pdlg_fields.host)), remote |-> Join(strip(pdlg_fields.remote))]

InvalidEntry ==
    \/ Entered.name = "" \/ Entered.local = "" \/ Entered.host = "" \/ Entered.remote = ""
    \/ Entered.local \notin Directories

\* C19: Save on a ProjectDialog whose name, local path, remote host or remote
\* path is empty, or whose local path is no existing directory, produces no
\* record and shows an error; such a dialog leaves the project list, the
\* store and the selection unchanged and no external command is run; a
\* record the dialog does produce has the four fields filled and an existing
\* directory.
C19_InvalidProjectRejected ==
    /\ [](pdlg_result # None =>
            /\ ~InvalidEntry
            /\ pdlg_result[1].name = Entered.name
            /\ pdlg_result[1].local_path = Entered.local
            /\ pdlg_result[1].remote_host = Entered.host
            /\ pdlg_result[1].remote_path = Entered.remote)
    /\ [][(project_save /\ InvalidEntry) =>
            /\ pdlg_result' = None
            /\ pdlg_open'
            /\ \E b \in msgboxes' \ msgboxes : b.kind = "error"
            /\ UNCHANGED <<storeVars, current_project, project_var, cmdVars, ran>>]_vars
    /\ [][((add_returned \/ edit_returned) /\ pdlg_result = None) =>
            UNCHANGED <<storeVars, current_project, project_var, cmdVars, ran>>]_vars

\* C19 witness: Save was pressed on an Add dialog whose local path does not
\* exist; the dialog is still open without a result and the list is empty.
C19_Witness ==
    /\ pc = "add_dialog"
    /\ pdlg_open
    /\ pdlg_result = None
    /\ Entered.name = "web"
    /\ Entered.local = "/nowhere"
    /\ showerror(<<"Local path does not exist: /nowhere">>) \in msgboxes
    /\ projects = PyList(<< >>)
    /\ config_file = File("missing", NoData)

\* The store holds a JSON object whose 'projects' is a list.
WellFormedStore(f) ==
    /\ f.kind = "json"
    /\ f.data.type = "object"
    /\ f.data.has_projects
    /\ f.data.projects.type = "list"

\* C20: no exception leaves Config.load, and after the load of a store that
\* is missing, unreadable, not JSON or otherwise not an object with a
\* 'projects' list, the project list is the empty list.
C20_LoadNeverRaises ==
    /\ raised # None => raised[1].where # "Config.load"
    /\ (pc # "startup" /\ ~WellFormedStore(config_file)) => projects = PyList(<< >>)

\* C21: whenever the main loop is idle, loading the store gives the project
\* list in memory, in the same order, and every step that changes the list
\* (an add, an edit, a remove) leaves the store holding the new list.
C21_WriteThrough ==
    /\ [](pc = "idle" =>
            /\ load(config_file).raised = None
            /\ load(config_file).projects = projects)
    /\ [][(pc # "startup" /\ projects' # projects) =>
            config_file' = File("json", JObject(TRUE, projects'))]_vars

\* C22: no two records of the project list have the same name.
C22_UniqueNames ==
    projects.type = "list" =>
       \A i, j \in 1..Len(projects.items) :
          projects.items[i].name = projects.items[j].name => i = j

\* The position in the list of the record of the current project, a record
\* being identified by its name; for a name the list holds more than once it
\* is the position of the first, which is the one a selection of the name
\* makes current (0: no project is current, or none of the list has its name).
CurrentIndex ==
    IF current_project = None THEN 0
    ELSE LET named(i) == projects.items[i].name = current_project[1].name
         IN  IF \A i \in 1..Len(projects.items) : ~named(i) THEN 0
             ELSE CHOOSE i \in 1..Len(projects.items) :
                     named(i) /\ \A j \in 1..(i - 1) : ~named(j)

\* C23: an edit that changes the list replaces the record at the position of
\* the current project by the dialog's record and nothing else; a remove that
\* changes the list deletes the record at that position and nothing else; the
\* other records keep their values and their order.
C23_EditRemoveFrame ==
    /\ [][(edit_returned /\ pdlg_result # None) =>
            /\ CurrentIndex \in 1..Len(projects.items)
            /\ projects'.items =
                  [i \in 1..Len(projects.items) |->
                      IF i = CurrentIndex THEN pdlg_result[1] ELSE projects.items[i]]]_vars
    /\ [][(remove_project /\ projects' # projects) =>
            /\ CurrentIndex \in 1..Len(projects.items)
            /\ Len(projects'.items) = Len(projects.items) - 1
            /\ \A i \in 1..Len(projects'.items) :
                  projects'.items[i] =
                     IF i < CurrentIndex THEN projects.items[i] ELSE projects.items[i + 1]]_vars
    /\ [][(remove_project /\ CurrentIndex # 0
              /\ \E b \in msgboxes' : b.kind = "askyesno" /\ b.answer) =>
            projects' # projects]_vars

\* C23 witness: the first of two projects was removed; the second is left.
C23_Witness ==
    /\ pc = "idle"
    /\ status = "Project removed"
    /\ Len(projects.items) = 1
    /\ projects.items[1].name = "web"
    /\ askyesno("Confirm", TRUE) \in msgboxes

\* C24: the detection lists every candidate whose two times resolve and
\* differ exactly once: the loop's turn for such a file appends its entry and
\* keeps the entries before it, the entries are of distinct examined files,
\* and the detection returns the list only after every file of the
\* intersection had its turn; none of this reads the direction.
C24_DetectComplete ==
    /\ [](pc = "detect_loop" =>
            /\ Range(ConflictFiles) \subseteq examined
            /\ examined \subseteq common_files
            /\ \A i, j \in 1..Len(conflicts) :
                  conflicts[i].file = conflicts[j].file => i = j)
    /\ [][detect_examine =>
            LET c == cur'[1]
            IN  (c.local_time # None /\ c.remote_time # None
                    /\ c.local_time # c.remote_time) =>
                   conflicts' = conflicts \o
                      <<[file |-> c.file, local_time |-> c.local_time,
                         remote_time |-> c.remote_time]>>]_vars
    /\ [][(pc = "detect_loop" /\ pc' # "detect_loop") =>
            (examined = common_files /\ conflicts' = conflicts)]_vars

\* C24 witness: a sync from the remote found every one of three common files
\* in conflict.
C24_Witness ==
    /\ pc = "detect_loop"
    /\ direction = "from_remote"
    /\ Cardinality(common_files) = 3
    /\ examined = common_files
    /\ Range(ConflictFiles) = common_files

\* C25: a sync that ran the detection transfers no file that at the moment
\* of the transfer is on both sides with differing resolvable times, unless
\* the user decided that file for the source side.
C25_NoUndecidedOverwrite ==
    (Len(transfers) = 1 /\ {"ls_local", "ls_remote"} \subseteq cmds) =>
       \A f \in in_conflict :
          f \in DOMAIN results /\ results[f] = KeepChoice(direction)

\* C26: while the ConflictDialog shows a conflict its index is within
\* 0..n-1; a decision without "apply to all" records the shown file and
\* raises the index by exactly one, closing the dialog when the index reaches
\* n; a decision with "apply to all" and a cancellation close the dialog at
\* once; the index never goes down, so the dialog is closed after at most n
\* decisions; decisions are recorded only for files of the conflict list.
C26_ResolutionTerminates ==
    /\ [](dlg_open => (Len(conflicts) > 0 /\ current_index \in 0..(Len(conflicts) - 1)))
    /\ [](pc = "dialog" =>
            /\ current_index <= Len(conflicts)
            /\ DOMAIN results \subseteq Range(ConflictFiles))
    /\ [][(resolve /\ ~apply_all_var) =>
            /\ current_index' = current_index + 1
            /\ dlg_open' <=> (current_index' < Len(conflicts))
            /\ DOMAIN results' = DOMAIN results \cup {conflicts[current_index + 1].file}]_vars
    /\ [][(resolve /\ apply_all_var) => ~dlg_open']_vars
    /\ [][cancel => (~dlg_open' /\ cancelled')]_vars
    /\ [][(dlg_open /\ dlg_open') =>
            (current_index' >= current_index /\ conflicts' = conflicts)]_vars

\* C26 witness: three conflicts were decided one by one and the dialog
\* closed at the third decision.
C26_Witness ==
    /\ pc = "dialog"
    /\ ~dlg_open
    /\ ~cancelled
    /\ ~apply_all_var
    /\ Len(conflicts) = 3
    /\ current_index = 3
    /\ DOMAIN results = Range(ConflictFiles)

\* C27: when the dirtiness query of a push or pull fails (non-zero exit or
\* timeout), the tree counts as clean: the operation stands at its push or
\* pull command with no commit dialog and no confirmation shown and no commit
\* made; and a push or pull on a tree that counts as clean returns only after
\* it ran its push or pull command, never a commit.
C27_FailedQueryIsClean ==
    /\ (FailedRun /\ last_run[1].cmd = "git_status") =>
          /\ ~is_dirty
          /\ pc = IF func = "git_push" THEN "push_cmd" ELSE "pull_cmd"
          /\ ~commit_open
          /\ cmds = {"git_status"}
          /\ \A b \in msgboxes : b.kind # "askyesno"
    /\ (func \in {"git_push", "git_pull"} /\ "git_status" \in cmds /\ ~is_dirty) =>
          /\ pc \in {"push_cmd", "pull_cmd", "returned"}
          /\ "git_commit" \notin cmds
          /\ commit_result = None
          /\ \A b \in msgboxes : b.kind # "askyesno"
          /\ pc = "returned" => func \in cmds

\* C27 witness: the dirtiness query of a pull timed out and the pull stands
\* at its pull command.
C27_Witness ==
    /\ func = "git_pull"
    /\ FailedRun
    /\ last_run[1].cmd = "git_status"
    /\ last_run[1].exec = TimedOut
    /\ pc = "pull_cmd"

\* C28: the current project is none or a record of the project list, and the
\* operation buttons are enabled exactly when a current project is set.
C28_CurrentInList ==
    projects.type = "list" =>
       /\ current_project = None
             \/ \E i \in 1..Len(projects.items) : projects.items[i] = current_project[1]
       /\ buttons_enabled <=> current_project # None

\* C29: with no project selected, sync to remote, sync from remote, push and
\* pull return at once with non-success and full sync returns at once: no
\* external command is run, no dialog or message box is opened, no step of a
\* full sync is called, and the project list and the store stay as they were.
C29_NoProjectNoOp ==
    /\ []((current_project = None /\ func # "none") =>
            /\ pc = "returned" /\ ret = Some(FALSE) /\ mode = "single"
            /\ cmds = {} /\ last_run = None /\ ran = {}
            /\ ~dlg_open /\ ~commit_open /\ ~pdlg_open /\ ~ssh_open
            /\ msgboxes = {}
            /\ started = << >> /\ step_results = << >>
            /\ temp_file = None /\ transfers = << >>)
    /\ [][((sync_to_remote \/ sync_from_remote \/ git_push \/ git_pull \/ full_sync)
              /\ current_project = None) =>
            /\ msgboxes' = {} /\ ran' = {} /\ cmds' = {} /\ last_run' = None
            /\ started' = << >> /\ step_results' = << >>
            /\ IF full_sync THEN pc' = "idle" /\ func' = "none"
               ELSE pc' = "returned" /\ ret' = Some(FALSE)
            /\ UNCHANGED <<status, projVars>>]_vars

\* C29 witness: with no project selected the sync from the remote has
\* returned non-success.
C29_Witness ==
    /\ current_project = None
    /\ pc = "returned"
    /\ func = "sync_from_remote"
    /\ ret = Some(FALSE)
    /\ cmds = {}

\* C30: the file-list file created for a transfer is deleted before the sync
\* ends, whatever the outcome: whenever a sync has returned or the main loop
\* is idle, the file-list file of the sync is not on disk.
C30_TempFileRemoved ==
    pc \in {"idle", "returned"} => (temp_file = None /\ ~last_left_file)

====
